---- MODULE Spec2Model ----
(***************************************************************************)
(* Resumable transfer subsystem of the S3 file manager:                    *)
(*   - ResumableService (services/resumableService.ts): chunked multipart  *)
(*     upload with pause / resume / cancel and progress persisted in       *)
(*     localStorage, chunked ranged download;                              *)
(*   - UploadQueue (components/UploadQueue.tsx): the sequential upload     *)
(*     queue coordinator;                                                  *)
(*   - the object store (aws-sdk S3 client) as the environment answering   *)
(*     each call with success or failure.                                  *)
(*                                                                         *)
(* JavaScript runs one macrotask at a time: every action below is the code *)
(* that runs from one await (or one user event / timer) up to the next     *)
(* await.  Sizes are bytes.  A localStorage key `a_b_c` is the sequence    *)
(* <<a, b, c>> of the values joined by "_".                                *)
(***************************************************************************)
EXTENDS Integers, Sequences, FiniteSets, TLC

\* ------------------------------------------------------------------ bounds
\* parts of the largest file offered to the engine
MaxParts == 3
\* multipart sessions the store opens in one run
MaxSessions == 2
\* process restarts in one run
MaxRestarts == 1
\* files handed to the queue in one run
MaxEnqueues == 3
\* files of one drop or selection
MaxBatch == 1
MaxChunks == 3
MaxCalls == 3
MaxChanges == 1

\* --------------------------------------------------------------- constants
CHUNK_SIZE == 5 * 1024 * 1024
ResumableThreshold == 10 * 1024 * 1024

\* the largest file: MaxParts parts, the last one a single byte
BigSize == (MaxParts - 1) * CHUNK_SIZE + 1

Null == [null |-> TRUE]
NoItem == <<"noitem">>

ErrNotConfigured == "S3 not configured"
ErrTooSmall == "File too small for resumable upload. Use regular upload instead."
ErrCancelled == "Upload cancelled"
\* the message of a failed object-store call
ErrStore == "Network Failure"

\* ------------------------------------------------------------------- files
File(name, size, lastModified) ==
    [name |-> name, size |-> size, lastModified |-> lastModified]

\* a large file, the same file saved again later, the same name with another
\* content at the threshold, and one byte less than the threshold
Files ==
    {File("a", BigSize, 1), File("a", BigSize, 2),
     File("a", ResumableThreshold, 1), File("a", ResumableThreshold - 1, 1)}

\* A storage key is the sequence of the values a template string joins with
\* "_"; a value is tagged as text or as digits, which is what the patterns
\* /_\d+$/ of cancelUpload tell apart.
Str(t) == <<"s", t>>
Num(n) == <<"n", n>>
IsDigits(tok) == tok[1] = "n"

\* `${key}_${file.name}_${file.size}_${file.lastModified}`
FileKey(key, file) ==
    key \o <<Str(file.name), Num(file.size), Num(file.lastModified)>>

Min(a, b) == IF a < b THEN a ELSE b

\* Math.ceil(file.size / CHUNK_SIZE)
TotalChunks(size) == (size + CHUNK_SIZE - 1) \div CHUNK_SIZE

\* a slice that always has the nominal size
ChunkSizeNominal(size, partNumber) == CHUNK_SIZE

\* chunk = file.slice(start, end): its size
ChunkSize(size, partNumber) ==
    LET start == (partNumber - 1) * CHUNK_SIZE
        end == Min(start + CHUNK_SIZE, size)
    IN end - start

\* the tag the store returns for a part of a session
ETag(uploadId, partNumber) == <<"etag", uploadId, partNumber>>

\* --------------------------------------------------------------- variables
VARIABLES
    store,          \* localStorage, upload records: storage key -> ChunkProgress
    activeUploads,  \* ResumableService.activeUploads: fileKey -> controller
    inv,            \* the resumableUpload invocations, by slot
    sessions,       \* object store: multipart sessions, by upload id
    objects,        \* object store: keys of the objects it accepted
    queue,          \* UploadQueue: the items, in arrival order
    processingRef,  \* UploadQueue: processingRef.current / isProcessing
    nextId,         \* ids handed to enqueued items so far
    restarts,       \* process restarts so far
    remote,         \* object store: the object that is downloaded
    downloads,      \* localStorage, download records: key -> DownloadProgress
    dl,             \* the resumableDownload invocation
    tracker,        \* ResumableDownloadManager: its state while mounted
    calls,          \* resumableDownload calls so far
    changes,        \* replacements of the downloaded object so far
    configured,     \* s3Service.isConfigured()
    currentPath,    \* useS3: the folder that is shown
    rename,         \* the renameObject invocation
    abortResult     \* how the last abortUpload call ended

uploadVars == <<store, activeUploads, inv, sessions, objects, queue,
                processingRef, nextId, restarts>>

downloadVars == <<remote, downloads, dl, tracker, calls, changes>>

serviceVars == <<configured, currentPath, rename, abortResult>>

vars == <<uploadVars, downloadVars, serviceVars>>

\* `${currentPath}${file.name}`
DestKey(file) == <<Str(currentPath \o file.name)>>

\* the places an invocation of resumableUpload can run in
Slots == {1, 2}

\* the download manager is not mounted
ClosedManager ==
    [open |-> FALSE, pendingDownloads |-> <<>>, activeDownloads |-> {}]

\* resumableDownload is not running and has not run
IdleDownload ==
    [pc |-> "idle", caller |-> "", progress |-> Null, lastModified |-> 0,
     index |-> 0, rangeCalls |-> <<>>, downloadedChunks |-> <<>>,
     allChunks |-> <<>>, result |-> <<>>, reported |-> Null]

Running == {"init", "part", "paused", "complete", "put"}

IdleInv ==
    [pc |-> "idle", file |-> Null, key |-> <<>>, fileKey |-> <<>>,
     progress |-> Null, partNumber |-> 0, isAborted |-> FALSE,
     isPaused |-> FALSE, item |-> NoItem, outcome |-> "",
     loaded |-> Null, initCalled |-> FALSE, partCalls |-> <<>>,
     manifest |-> <<>>, reported |-> Null]

\* ------------------------------------------------------- persisted records
\* localStorage.setItem
SetItem(st, k, rec) ==
    [x \in (DOMAIN st) \cup {k} |-> IF x = k THEN rec ELSE st[x]]

\* localStorage.removeItem
RemoveItem(st, k) == [x \in (DOMAIN st) \ {k} |-> st[x]]

\* loadUploadProgress: the record, or null
LoadUploadProgress(st, k) == IF k \in DOMAIN st THEN st[k] ELSE Null

\* ---------------------------------------------------------------- manifest
RECURSIVE SortedSeq(_)
SortedSeq(S) ==
    IF S = {} THEN <<>>
    ELSE LET m == CHOOSE x \in S : \A y \in S : x <= y
         IN <<m>> \o SortedSeq(S \ {m})

\* Object.keys(progress.parts).sort(...).map(...)
Manifest(progress) ==
    LET order == SortedSeq(DOMAIN progress.parts)
    IN [i \in 1..Len(order) |->
          [ETag |-> progress.parts[order[i]].etag, PartNumber |-> order[i]]]

\* ------------------------------------------------------ engine: the upload
\* What one synchronous run of the engine leaves behind: the invocation, the
\* persisted records and the active-upload registry.
Result(v, st, act) == [v |-> v, store |-> st, active |-> act]

\* a catch block that drops the record instead of persisting it
CatchDiscards(v, st, act, message) ==
    Result([v EXCEPT !.pc = "ended", !.outcome = message],
           RemoveItem(st, v.fileKey), RemoveItem(act, v.fileKey))

\* the catch block of resumableUpload
Catch(v, st, act, message) ==
    Result([v EXCEPT !.pc = "ended", !.outcome = message],
           IF ~v.isAborted THEN SetItem(st, v.fileKey, v.progress) ELSE st,
           RemoveItem(act, v.fileKey))

\* s3.uploadPart is issued for v.partNumber
IssuePart(v, st, act) ==
    Result([v EXCEPT !.pc = "part",
                     !.partCalls = Append(@, v.partNumber)], st, act)

\* s3.completeMultipartUpload is issued with the sorted manifest
IssueComplete(v, st, act) ==
    Result([v EXCEPT !.pc = "complete", !.manifest = Manifest(v.progress)],
           st, act)

\* RunLoop without the pause check
RECURSIVE RunLoopNoPause(_, _, _)
RunLoopNoPause(v, st, act) ==
    IF v.partNumber > TotalChunks(v.file.size) THEN IssueComplete(v, st, act)
    ELSE IF v.isAborted THEN Catch(v, st, act, ErrCancelled)
    ELSE IF v.partNumber \in DOMAIN v.progress.parts
    THEN RunLoopNoPause([v EXCEPT !.partNumber = @ + 1], st, act)
    ELSE IssuePart(v, st, act)

\* RunLoop without the resumption short-circuit
RunLoopNoSkip(v, st, act) ==
    IF v.partNumber > TotalChunks(v.file.size) THEN IssueComplete(v, st, act)
    ELSE IF v.isAborted THEN Catch(v, st, act, ErrCancelled)
    ELSE IF v.isPaused
    THEN Result([v EXCEPT !.pc = "paused"],
                SetItem(st, v.fileKey, v.progress), act)
    ELSE IssuePart(v, st, act)

\* The for loop, from the top of the iteration for v.partNumber up to the next
\* await: the cancellation check, the pause check, the resumption
\* short-circuit, the next store call.
RECURSIVE RunLoop(_, _, _)
RunLoop(v, st, act) ==
    IF v.partNumber > TotalChunks(v.file.size) THEN IssueComplete(v, st, act)
    ELSE IF v.isAborted THEN Catch(v, st, act, ErrCancelled)
    ELSE IF v.isPaused
    THEN Result([v EXCEPT !.pc = "paused"],
                SetItem(st, v.fileKey, v.progress), act)
    ELSE IF v.partNumber \in DOMAIN v.progress.parts
    THEN RunLoop([v EXCEPT !.partNumber = @ + 1], st, act)
    ELSE IssuePart(v, st, act)

\* The pause wait is over: the rest of the iteration for v.partNumber.
AfterPause(v, st, act) ==
    IF v.isAborted THEN Catch(v, st, act, ErrCancelled)
    ELSE IF v.partNumber \in DOMAIN v.progress.parts
    THEN RunLoop([v EXCEPT !.partNumber = @ + 1], st, act)
    ELSE IssuePart(v, st, act)

\* TooSmall with <= for <
TooSmallInclusive(size) == size <= ResumableThreshold

\* if (file.size < 10 * 1024 * 1024) throw
TooSmall(size) == size < ResumableThreshold

\* a test that drops every loaded record
StaleAlways(progress, file) == progress # Null

\* a loaded record that does not describe this file is dropped
Stale(progress, file) ==
    progress # Null
    /\ (progress.totalSize # file.size \/ progress.fileName # file.name)

\* the record built after createMultipartUpload
NewProgress(uploadId, file, key) ==
    [uploadId |-> uploadId, parts |-> <<>>, totalSize |-> file.size,
     uploadedSize |-> 0, fileName |-> file.name, key |-> key,
     lastModified |-> file.lastModified]

\* resumableUpload that registers its controller before it looks at the
\* configuration and the size
StartUploadRegistersFirst(s, file, key, item, st, act) ==
    LET fileKey == FileKey(key, file)
        found == LoadUploadProgress(st, fileKey)
        stale == Stale(found, file)
        progress == IF stale THEN Null ELSE found
        st1 == IF stale THEN RemoveItem(st, fileKey) ELSE st
        act1 == SetItem(act, fileKey, [owner |-> s, isPaused |-> FALSE])
        v == [IdleInv EXCEPT !.file = file, !.key = key, !.fileKey = fileKey,
                             !.item = item, !.progress = progress,
                             !.loaded = progress, !.partNumber = 1]
    IN IF ~configured
       THEN Result([v EXCEPT !.pc = "ended", !.outcome = ErrNotConfigured,
                             !.progress = Null, !.loaded = Null], st, act1)
       ELSE IF TooSmall(file.size)
       THEN Result([v EXCEPT !.pc = "ended", !.outcome = ErrTooSmall,
                             !.progress = Null, !.loaded = Null], st, act1)
       ELSE IF progress = Null
       THEN Result([v EXCEPT !.pc = "init", !.initCalled = TRUE], st1, act1)
       ELSE RunLoop(v, st1, act1)

\* resumableUpload(file, key, onProgress) in slot s, up to its first await
StartUpload(s, file, key, item, st, act) ==
    LET fileKey == FileKey(key, file)
        found == LoadUploadProgress(st, fileKey)
        stale == Stale(found, file)
        progress == IF stale THEN Null ELSE found
        st1 == IF stale THEN RemoveItem(st, fileKey) ELSE st
        act1 == SetItem(act, fileKey, [owner |-> s, isPaused |-> FALSE])
        v == [IdleInv EXCEPT !.file = file, !.key = key, !.fileKey = fileKey,
                             !.item = item, !.progress = progress,
                             !.loaded = progress, !.partNumber = 1]
    IN IF ~configured
       THEN Result([v EXCEPT !.pc = "ended", !.outcome = ErrNotConfigured,
                             !.progress = Null, !.loaded = Null], st, act)
       ELSE IF TooSmall(file.size)
       THEN Result([v EXCEPT !.pc = "ended", !.outcome = ErrTooSmall,
                             !.progress = Null, !.loaded = Null], st, act)
       ELSE IF progress = Null
       THEN Result([v EXCEPT !.pc = "init", !.initCalled = TRUE], st1, act1)
       ELSE RunLoop(v, st1, act1)

\* createMultipartUpload returned uploadId
AfterInit(v, uploadId, st, act) ==
    RunLoop([v EXCEPT !.progress = NewProgress(uploadId, v.file, v.key)],
            st, act)

\* createMultipartUpload failed: the error leaves resumableUpload before its
\* try block, the controller stays registered but belongs to no invocation
AfterInitFailed(v, st, act) ==
    Result([v EXCEPT !.pc = "ended", !.outcome = ErrStore], st,
           [k \in DOMAIN act |->
               IF k = v.fileKey THEN [act[k] EXCEPT !.owner = 0] ELSE act[k]])

\* a record that holds the acknowledged part and does not count its bytes
WithPartUncounted(progress, partNumber, etag, size) ==
    [progress EXCEPT
        !.parts = SetItem(@, partNumber, [etag |-> etag, size |-> size])]

\* a record that forgets the acknowledged part
WithPartDropped(progress, partNumber, etag, size) == progress

\* the record after uploadPart acknowledged v.partNumber
WithPart(progress, partNumber, etag, size) ==
    [progress EXCEPT
        !.parts = SetItem(@, partNumber, [etag |-> etag, size |-> size]),
        !.uploadedSize = @ + size]

\* a save that writes nothing
SaveUploadProgressLost(st, fileKey, progress) == st

\* saveUploadProgress
SaveUploadProgress(st, fileKey, progress) == SetItem(st, fileKey, progress)

\* onProgress(progress.uploadedSize, progress.totalSize) is invoked for the
\* part just acknowledged while localStorage is st: the call, and the record
\* localStorage holds at that moment
OnProgress(v, st) ==
    [v EXCEPT !.reported =
        [partNumber |-> v.partNumber,
         uploadedSize |-> v.progress.uploadedSize,
         totalSize |-> v.progress.totalSize,
         persisted |-> LoadUploadProgress(st, v.fileKey)]]

\* uploadPart returned etag: record the part, persist, report, go on
AfterPart(v, etag, st, act) ==
    LET p == WithPart(v.progress, v.partNumber, etag,
                      ChunkSize(v.file.size, v.partNumber))
        saved == SaveUploadProgress(st, v.fileKey, p)
        w == OnProgress([v EXCEPT !.progress = p], saved)
    IN RunLoop([w EXCEPT !.partNumber = @ + 1], saved, act)

\* a success path that leaves the controller registered
AfterCompleteRegistered(v, st, act) ==
    Result([v EXCEPT !.pc = "ended", !.outcome = "ok"],
           RemoveItem(st, v.fileKey), act)

\* completeMultipartUpload returned
AfterComplete(v, st, act) ==
    Result([v EXCEPT !.pc = "ended", !.outcome = "ok"],
           RemoveItem(st, v.fileKey), RemoveItem(act, v.fileKey))

\* --------------------------------------------- engine: pause, cancel, abort
\* pauseUpload / resumeUpload: the flag of the controller registered under
\* fileKey, if any
FlagRegistry(act, fileKey, flag) ==
    [k \in DOMAIN act |->
        IF k = fileKey THEN [act[k] EXCEPT !.isPaused = flag] ELSE act[k]]

FlagInvocations(iv, act, fileKey, flag) ==
    [s \in Slots |->
        IF fileKey \in DOMAIN act /\ act[fileKey].owner = s
        THEN [iv[s] EXCEPT !.isPaused = flag] ELSE iv[s]]

\* fileKey.replace(/_\d+$/, '')
StripDigits(k) ==
    IF Len(k) >= 2 /\ IsDigits(k[Len(k)]) THEN SubSeq(k, 1, Len(k) - 1) ELSE k

\* fileKey.replace(/_\d+_\d+$/, '')
StripTwoDigits(k) ==
    IF Len(k) >= 3 /\ IsDigits(k[Len(k)]) /\ IsDigits(k[Len(k) - 1])
    THEN SubSeq(k, 1, Len(k) - 2) ELSE k

KeyVariations(fileKey) ==
    {fileKey, StripDigits(fileKey), StripTwoDigits(fileKey)}

RemoveItems(st, ks) == [x \in (DOMAIN st) \ ks |-> st[x]]

\* cancelUpload: abort() of the registered controller sets its invocation's
\* isAborted and unregisters it
CancelInvocations(iv, act, fileKey) ==
    [s \in Slots |->
        IF fileKey \in DOMAIN act /\ act[fileKey].owner = s
        THEN [iv[s] EXCEPT !.isAborted = TRUE] ELSE iv[s]]

CancelRegistry(act, fileKey) == RemoveItem(act, fileKey)

\* a purge that empties the whole upload collection
CancelStoreAll(st, fileKey) == RemoveItems(st, DOMAIN st)

CancelStore(st, fileKey) == RemoveItems(st, KeyVariations(fileKey))

\* abortUpload: the storage key it looks under (fileSize && lastModified)
AbortKey(key, fileName, fileSize, lastModified) ==
    IF fileSize # 0 /\ lastModified # 0
    THEN key \o <<Str(fileName), Num(fileSize), Num(lastModified)>>
    ELSE key \o <<Str(fileName)>>

\* abortUpload: the session abortMultipartUpload is called for, if any
AbortTarget(st, fileKey) ==
    LET progress == LoadUploadProgress(st, fileKey)
    IN IF progress # Null /\ progress.uploadId # 0
       THEN {progress.uploadId} ELSE {}

\* the object store after abortMultipartUpload for the sessions ids; a failed
\* call is caught and logged
AbortSessions(ss, ids, ok) ==
    [u \in DOMAIN ss |->
        IF u \in ids /\ ok /\ ss[u].state = "open"
        THEN [ss[u] EXCEPT !.state = "aborted", !.abortCalled = TRUE]
        ELSE IF u \in ids THEN [ss[u] EXCEPT !.abortCalled = TRUE]
        ELSE ss[u]]

\* ------------------------------------------------------------- queue hooks
\* addFilesToQueue: isResumable: file.size >= 10 * 1024 * 1024
IsResumable(size) == size >= ResumableThreshold

Percent(num, den) == [num |-> num, den |-> den]

\* onProgress: setQueue(prev => prev.map(q => q.id === item.id ? ...))
ItemProgress(q, id, uploaded, total) ==
    [i \in 1..Len(q) |->
        IF q[i].id = id THEN [q[i] EXCEPT !.progress = Percent(uploaded, total)]
        ELSE q[i]]

\* processUploadItem after the upload: completed, or the catch block
ItemFinished(q, id, outcome) ==
    [i \in 1..Len(q) |->
        IF q[i].id # id THEN q[i]
        ELSE IF outcome = "ok"
        THEN [q[i] EXCEPT !.status = "completed", !.progress = Percent(100, 100)]
        ELSE IF outcome = "Upload paused"
        THEN [q[i] EXCEPT !.status = "paused"]
        ELSE [q[i] EXCEPT !.status = "error", !.error = outcome]]

\* ---------------------------------------------------------- engine actions
\* What stays of an invocation that returned or threw: the settled promise in
\* the hands of a direct caller; processUploadItem turns it into the status of
\* its item and keeps nothing.
Ended(v) ==
    IF v.item # NoItem THEN IdleInv
    ELSE [IdleInv EXCEPT !.pc = "ended", !.outcome = v.outcome,
                         !.file = v.file, !.key = v.key,
                         !.fileKey = v.fileKey, !.isAborted = v.isAborted,
                         !.reported = v.reported]

\* The engine's run r ends the step of slot s; when it ends the invocation of
\* a queue item, processUploadItem and processQueue go on in the same task.
Settle(s, r, q) ==
    LET ended == r.v.pc = "ended" /\ r.v.item # NoItem
    IN /\ inv' = [inv EXCEPT ![s] = IF r.v.pc = "ended" THEN Ended(r.v)
                                    ELSE r.v]
       /\ activeUploads' = r.active
       /\ queue' = IF ended THEN ItemFinished(q, r.v.item, r.v.outcome) ELSE q
       /\ store' = IF ended /\ r.v.outcome = "ok"
                   THEN RemoveItem(r.store, r.v.fileKey) ELSE r.store
       /\ processingRef' = IF ended THEN FALSE ELSE processingRef

NewSession(key) ==
    [key |-> key, parts |-> {}, state |-> "open", abortCalled |-> FALSE]

InitOk(s) ==
    /\ inv[s].pc = "init"
    /\ Cardinality(DOMAIN sessions) < MaxSessions
    /\ LET uploadId == Cardinality(DOMAIN sessions) + 1
       IN /\ sessions' = SetItem(sessions, uploadId, NewSession(inv[s].key))
          /\ Settle(s, AfterInit(inv[s], uploadId, store, activeUploads), queue)
    /\ UNCHANGED <<objects, nextId, restarts,
                   downloadVars, serviceVars>>

InitFail(s) ==
    /\ inv[s].pc = "init"
    /\ Settle(s, AfterInitFailed(inv[s], store, activeUploads), queue)
    /\ UNCHANGED <<sessions, objects, nextId, restarts,
                   downloadVars, serviceVars>>

PartOk(s) ==
    /\ inv[s].pc = "part"
    /\ LET v == inv[s]
           uploadId == v.progress.uploadId
           r == AfterPart(v, ETag(uploadId, v.partNumber), store, activeUploads)
       IN /\ sessions[uploadId].state = "open"
          /\ sessions' = [sessions EXCEPT
                             ![uploadId].parts = @ \cup {v.partNumber}]
          /\ Settle(s, r, ItemProgress(queue, v.item, r.v.progress.uploadedSize,
                                       r.v.progress.totalSize))
    /\ UNCHANGED <<objects, nextId, restarts,
                   downloadVars, serviceVars>>

\* a failed uploadPart that the engine issues again
PartFailRetried(s) ==
    /\ inv[s].pc = "part"
    /\ Settle(s, IssuePart(inv[s], store, activeUploads), queue)
    /\ UNCHANGED <<sessions, objects, nextId, restarts,
                   downloadVars, serviceVars>>

PartFail(s) ==
    /\ inv[s].pc = "part"
    /\ Settle(s, Catch(inv[s], store, activeUploads, ErrStore), queue)
    /\ UNCHANGED <<sessions, objects, nextId, restarts,
                   downloadVars, serviceVars>>

\* the one-second poll of the pause wait finds the flag cleared or the upload
\* cancelled
PauseOver(s) ==
    /\ inv[s].pc = "paused"
    /\ ~inv[s].isPaused \/ inv[s].isAborted
    /\ Settle(s, AfterPause(inv[s], store, activeUploads), queue)
    /\ UNCHANGED <<sessions, objects, nextId, restarts,
                   downloadVars, serviceVars>>

\* the store accepts a completion whose manifest names the parts it holds
CompleteOk(s) ==
    /\ inv[s].pc = "complete"
    /\ LET v == inv[s]
           uploadId == v.progress.uploadId
       IN /\ sessions[uploadId].state = "open"
          /\ \A i \in 1..Len(v.manifest) :
                 /\ v.manifest[i].PartNumber \in sessions[uploadId].parts
                 /\ v.manifest[i].ETag = ETag(uploadId, v.manifest[i].PartNumber)
          /\ sessions' = [sessions EXCEPT ![uploadId].state = "completed"]
          /\ objects' = objects \cup {v.key}
          /\ Settle(s, AfterComplete(v, store, activeUploads), queue)
    /\ UNCHANGED <<nextId, restarts,
                   downloadVars, serviceVars>>

CompleteFail(s) ==
    /\ inv[s].pc = "complete"
    /\ Settle(s, Catch(inv[s], store, activeUploads, ErrStore), queue)
    /\ UNCHANGED <<sessions, objects, nextId, restarts,
                   downloadVars, serviceVars>>

EngineStep ==
    \E s \in Slots :
        \/ InitOk(s) \/ InitFail(s) \/ PartOk(s) \/ PartFail(s)
        \/ PauseOver(s) \/ CompleteOk(s) \/ CompleteFail(s)

\* ------------------------------------------------- the engine called directly
FreeSlots == {s \in Slots : inv[s].pc \notin Running}

FreeSlot == CHOOSE s \in FreeSlots : \A t \in FreeSlots : s <= t

FileKeys == {FileKey(DestKey(f), f) : f \in Files}

\* resumableUpload(file, `${currentPath}${file.name}`)
CallUpload(file) ==
    /\ FreeSlots = Slots
    /\ Settle(FreeSlot, StartUpload(FreeSlot, file, DestKey(file), NoItem,
                                    store, activeUploads), queue)
    /\ UNCHANGED <<sessions, objects, nextId, restarts,
                   downloadVars, serviceVars>>

\* the caller pauses and resumes the uploads it has running
CallPause(fileKey) ==
    /\ fileKey \in DOMAIN activeUploads
    /\ activeUploads[fileKey].owner # 0
    /\ ~activeUploads[fileKey].isPaused
    /\ inv' = FlagInvocations(inv, activeUploads, fileKey, TRUE)
    /\ activeUploads' = FlagRegistry(activeUploads, fileKey, TRUE)
    /\ UNCHANGED <<store, sessions, objects, queue, processingRef, nextId,
                   restarts,
                   downloadVars, serviceVars>>

CallResume(fileKey) ==
    /\ fileKey \in DOMAIN activeUploads
    /\ activeUploads[fileKey].owner # 0
    /\ activeUploads[fileKey].isPaused
    /\ inv' = FlagInvocations(inv, activeUploads, fileKey, FALSE)
    /\ activeUploads' = FlagRegistry(activeUploads, fileKey, FALSE)
    /\ UNCHANGED <<store, sessions, objects, queue, processingRef, nextId,
                   restarts,
                   downloadVars, serviceVars>>

CallCancel(fileKey) ==
    /\ fileKey \in DOMAIN activeUploads \/ fileKey \in DOMAIN store
    /\ inv' = CancelInvocations(inv, activeUploads, fileKey)
    /\ activeUploads' = CancelRegistry(activeUploads, fileKey)
    /\ store' = CancelStore(store, fileKey)
    /\ UNCHANGED <<sessions, objects, queue, processingRef, nextId, restarts,
                   downloadVars, serviceVars>>

\* abortUpload(key, file.name, file.size, file.lastModified)
CallAbort(file, ok) ==
    LET fileKey == AbortKey(DestKey(file), file.name, file.size,
                            file.lastModified)
    IN IF ~configured
       THEN /\ abortResult' = ErrNotConfigured
            /\ UNCHANGED <<uploadVars, downloadVars, configured, currentPath,
                           rename>>
       ELSE /\ fileKey \in DOMAIN store
            /\ sessions' = AbortSessions(sessions, AbortTarget(store, fileKey),
                                         ok)
            /\ store' = RemoveItem(store, fileKey)
            /\ abortResult' = "ok"
            /\ UNCHANGED <<activeUploads, inv, objects, queue, processingRef,
                           nextId, restarts,
                           downloadVars, configured, currentPath, rename>>

\* a fresh engine instance over the same durable store
EngineRestart ==
    /\ restarts < MaxRestarts
    /\ restarts' = restarts + 1
    /\ inv' = [s \in Slots |-> IdleInv]
    /\ activeUploads' = <<>>
    /\ UNCHANGED <<store, sessions, objects, queue, processingRef, nextId,
                   downloadVars, serviceVars>>

UploadInit ==
    /\ store = <<>>
    /\ activeUploads = <<>>
    /\ inv = [s \in Slots |-> IdleInv]
    /\ sessions = <<>>
    /\ objects = {}
    /\ queue = <<>>
    /\ processingRef = FALSE
    /\ nextId = 0
    /\ restarts = 0

\* renameObject is not running and has not run
IdleRename ==
    [pc |-> "idle", oldKey |-> <<>>, newKey |-> <<>>, existed |-> FALSE]

\* no download has been started
DownloadIdle ==
    /\ downloads = <<>>
    /\ dl = IdleDownload
    /\ tracker = ClosedManager
    /\ calls = 0
    /\ changes = 0

\* the saved configuration was applied by the mount effect, the root folder
\* is shown, nothing is renamed
ServiceInit ==
    /\ configured = TRUE
    /\ currentPath = ""
    /\ rename = IdleRename
    /\ abortResult = ""

Init ==
    /\ UploadInit
    /\ remote = [size |-> 0, lastModified |-> 1]
    /\ DownloadIdle
    /\ ServiceInit

EngineNext ==
    \/ \E file \in Files : CallUpload(file)
    \/ \E fileKey \in FileKeys : CallPause(fileKey)
    \/ \E fileKey \in FileKeys : CallResume(fileKey)
    \/ \E fileKey \in FileKeys : CallCancel(fileKey)
    \/ \E file \in Files, ok \in BOOLEAN : CallAbort(file, ok)
    \/ EngineRestart
    \/ EngineStep

EngineSpec == Init /\ [][EngineNext]_vars

\* Resumption: uploads that a failing store call or a restart interrupts and
\* the caller starts again.
ResumeNext ==
    \/ \E file \in Files : CallUpload(file)
    \/ EngineRestart
    \/ \E s \in Slots :
          \/ InitOk(s) \/ InitFail(s) \/ PartOk(s) \/ PartFail(s)
          \/ CompleteOk(s) \/ CompleteFail(s)

ResumeSpec == Init /\ [][ResumeNext]_vars

\* Cancellation: uploads called directly that fail, are cancelled while a
\* store call is in flight, and are started again.
CancelNext ==
    \/ \E file \in Files : CallUpload(file)
    \/ \E fileKey \in FileKeys : CallCancel(fileKey)
    \/ \E s \in Slots :
          \/ InitOk(s) \/ InitFail(s) \/ PartOk(s) \/ PartFail(s)
          \/ CompleteOk(s) \/ CompleteFail(s)

CancelSpec == Init /\ [][CancelNext]_vars

\* Pausing: uploads called directly that the caller pauses, resumes and
\* cancels while they run or wait.
PauseNext ==
    \/ \E file \in Files : CallUpload(file)
    \/ \E fileKey \in FileKeys : CallPause(fileKey)
    \/ \E fileKey \in FileKeys : CallResume(fileKey)
    \/ \E fileKey \in FileKeys : CallCancel(fileKey)
    \/ \E s \in Slots :
          \/ InitOk(s) \/ InitFail(s) \/ PartOk(s) \/ PartFail(s)
          \/ PauseOver(s) \/ CompleteOk(s) \/ CompleteFail(s)

PauseSpec == Init /\ [][PauseNext]_vars

\* ------------------------------------------------------- the upload queue
\* a large file of two whole parts, one of MaxParts parts whose last part is
\* a single byte, and one under the threshold
QueueFiles ==
    {File("a", ResumableThreshold, 1), File("b", BigSize, 1),
     File("s", ResumableThreshold - 1, 1)}

RECURSIVE SeqsUpTo(_, _)
SeqsUpTo(S, n) ==
    IF n = 0 THEN {<<>>}
    ELSE LET shorter == SeqsUpTo(S, n - 1)
         IN shorter \cup {Append(q, x) : q \in shorter, x \in S}

\* the files of one drop or selection
Batches == SeqsUpTo(QueueFiles, MaxBatch) \ {<<>>}

\* `${item.key}_${item.file.name}_${item.file.size}_${item.file.lastModified}`
ItemFileKey(item) == FileKey(item.key, item.file)

HasItem(q, id) == \E i \in 1..Len(q) : q[i].id = id

ItemOf(q, id) == q[CHOOSE i \in 1..Len(q) : q[i].id = id]

\* setQueue(prev => prev.filter(q => q.id !== id))
Without(q, id) ==
    LET keep == {i \in 1..Len(q) : q[i].id # id}
        order == SortedSeq(keep)
    IN [j \in 1..Len(order) |-> q[order[j]]]

\* setQueue(prev => prev.map(q => q.id === id ? { ...q, status } : q))
WithStatus(q, id, status) ==
    [i \in 1..Len(q) |->
        IF q[i].id = id THEN [q[i] EXCEPT !.status = status] ELSE q[i]]

\* addFilesToQueue: the item of one file, none when the closure's queue holds
\* the same file for the same destination
NewItems(q, st, file, id) ==
    LET key == DestKey(file)
        existingInQueue ==
            \E i \in 1..Len(q) : q[i].key = key /\ q[i].file = file
        existingProgress == LoadUploadProgress(st, FileKey(key, file))
    IN IF existingInQueue THEN <<>>
       ELSE <<[id |-> <<"added", id>>, file |-> file, key |-> key,
               progress |-> IF existingProgress # Null
                            THEN Percent(existingProgress.uploadedSize,
                                         existingProgress.totalSize)
                            ELSE Percent(0, 100),
               status |-> IF existingProgress # Null THEN "paused"
                          ELSE "queued",
               error |-> "",
               isResumable |-> IsResumable(file.size)]>>

\* files.forEach(...): every file is compared with the queue of the render
\* the callback was made in, q
RECURSIVE BatchItems(_, _, _, _)
BatchItems(q, st, files, id) ==
    IF files = <<>> THEN <<>>
    ELSE LET first == NewItems(q, st, Head(files), id + 1)
         IN first \o BatchItems(q, st, Tail(files), id + Len(first))

AddFilesToQueue(files) ==
    LET newItems == BatchItems(queue, store, files, nextId)
    IN /\ nextId + Len(files) <= MaxEnqueues
       /\ newItems # <<>>
       /\ queue' = queue \o newItems
       /\ nextId' = nextId + Len(newItems)
       /\ UNCHANGED <<store, activeUploads, inv, sessions, objects,
                      processingRef, restarts,
                      downloadVars, serviceVars>>

\* a test that finds only the records with every byte uploaded
FullyUploaded(progress) == progress.uploadedSize >= progress.totalSize

\* (uploadedSize / totalSize) * 100 >= 99.9, that is
\* (totalSize - uploadedSize) * 1000 <= totalSize
NearlyComplete(progress) ==
    progress.totalSize - progress.uploadedSize <= progress.totalSize \div 1000

\* clearCompletedUploads
ClearCompletedUploads(st) ==
    RemoveItems(st, {k \in DOMAIN st : NearlyComplete(st[k])})

\* loadPendingUploads: the records it removes from storage
PendingPurged(st) ==
    {k \in DOMAIN st :
        NearlyComplete(st[k]) \/ st[k].uploadedSize >= st[k].totalSize}

RECURSIVE SetToSeq(_)
SetToSeq(S) ==
    IF S = {} THEN <<>>
    ELSE LET x == CHOOSE y \in S : TRUE IN <<x>> \o SetToSeq(S \ {x})

\* loadPendingUploads: the item shown for the record under uploadKey
PendingItem(uploadKey, progress) ==
    [id |-> <<"pending", uploadKey>>,
     file |-> File(progress.fileName, progress.totalSize,
                   progress.lastModified),
     key |-> uploadKey,
     progress |-> Percent(progress.uploadedSize, progress.totalSize),
     status |-> "paused", error |-> "", isResumable |-> TRUE]

\* loadPendingUploads on the empty queue of a mount
LoadPendingUploads(st) ==
    LET keys == SetToSeq((DOMAIN st) \ PendingPurged(st))
    IN [i \in 1..Len(keys) |-> PendingItem(keys[i], st[keys[i]])]

\* The page is loaded again: memory is lost, localStorage and the object store
\* stay; the queue mounts, clears completed records and loads the pending.
Restart ==
    LET cleared == ClearCompletedUploads(store)
    IN /\ restarts < MaxRestarts
       /\ restarts' = restarts + 1
       /\ inv' = [s \in Slots |-> IdleInv]
       /\ activeUploads' = <<>>
       /\ processingRef' = FALSE
       /\ store' = RemoveItems(cleared, PendingPurged(cleared))
       /\ queue' = LoadPendingUploads(cleared)
       /\ UNCHANGED <<sessions, objects, nextId,
                      downloadVars, serviceVars>>

\* a filter that lets failed items through
QueuedOrFailed(q) ==
    {i \in 1..Len(q) : q[i].status \in {"queued", "error"}}

\* queue.filter(item => item.status === 'queued')
QueuedItems(q) == {i \in 1..Len(q) : q[i].status = "queued"}

\* isUploadActive
IsUploadActive(act, fileKey) == fileKey \in DOMAIN act

\* the one-shot upload of a small file: onUpload([item.file]) is in flight;
\* handleUploadFiles passes App's currentPath of the render that processQueue
\* was made in, and uploadFile builds the key from it
StartPut(item) ==
    [IdleInv EXCEPT !.pc = "put", !.file = item.file,
                    !.key = DestKey(item.file), !.item = item.id]

\* a coordinator that never finds itself processing
NeverProcessing(ref) == FALSE

\* if (processingRef.current || isProcessing) return
AlreadyProcessing(ref) == ref

\* processQueue and processUploadItem up to the first await: the first queued
\* item is marked uploading and its upload starts, unless an upload is
\* registered for its identity
ProcessQueue ==
    /\ ~AlreadyProcessing(processingRef)
    /\ QueuedItems(queue) # {}
    /\ FreeSlots # {}
    /\ LET first == CHOOSE i \in QueuedItems(queue) :
                        \A j \in QueuedItems(queue) : i <= j
           nextItem == queue[first]
           uploading == [WithStatus(queue, nextItem.id, "uploading")
                            EXCEPT ![first].error = ""]
       IN IF IsUploadActive(activeUploads, ItemFileKey(nextItem))
          THEN UNCHANGED <<store, activeUploads, inv, queue, processingRef>>
          ELSE IF nextItem.isResumable
          THEN /\ processingRef' = TRUE
               /\ LET r == StartUpload(FreeSlot, nextItem.file, nextItem.key,
                                       nextItem.id, store, activeUploads)
                      ended == r.v.pc = "ended"
                  IN /\ inv' = [inv EXCEPT ![FreeSlot] =
                                   IF ended THEN Ended(r.v) ELSE r.v]
                     /\ activeUploads' = r.active
                     /\ store' = r.store
                     /\ queue' = IF ended
                                 THEN ItemFinished(uploading, nextItem.id,
                                                   r.v.outcome)
                                 ELSE uploading
                     /\ processingRef' = ~ended
          ELSE /\ processingRef' = TRUE
               /\ inv' = [inv EXCEPT ![FreeSlot] = StartPut(nextItem)]
               /\ queue' = ItemProgress(uploading, nextItem.id, 10, 100)
               /\ UNCHANGED <<store, activeUploads>>
    /\ UNCHANGED <<sessions, objects, nextId, restarts,
                   downloadVars, serviceVars>>

\* s3.upload returned; useS3.uploadFile and handleUploadFiles return
PutOk(s) ==
    /\ inv[s].pc = "put"
    /\ objects' = objects \cup {inv[s].key}
    /\ inv' = [inv EXCEPT ![s] =
                  Ended([inv[s] EXCEPT !.pc = "ended", !.outcome = "ok"])]
    /\ queue' = ItemFinished(queue, inv[s].item, "ok")
    /\ processingRef' = FALSE
    /\ UNCHANGED <<store, activeUploads, sessions, nextId, restarts,
                   downloadVars, serviceVars>>

\* s3.upload failed: useS3.uploadFile catches the error and sets its own error
\* text, so onUpload returns as after a success
PutFail(s) ==
    /\ inv[s].pc = "put"
    /\ inv' = [inv EXCEPT ![s] =
                  Ended([inv[s] EXCEPT !.pc = "ended", !.outcome = ErrStore])]
    /\ queue' = ItemFinished(queue, inv[s].item, "ok")
    /\ processingRef' = FALSE
    /\ UNCHANGED <<store, activeUploads, sessions, objects, nextId, restarts,
                   downloadVars, serviceVars>>

\* a pause button that also releases the coordinator
PauseUploadReleases(id) ==
    /\ HasItem(queue, id)
    /\ LET item == ItemOf(queue, id)
           fileKey == ItemFileKey(item)
       IN /\ item.status = "uploading"
          /\ inv' = IF item.isResumable
                    THEN FlagInvocations(inv, activeUploads, fileKey, TRUE)
                    ELSE inv
          /\ activeUploads' = IF item.isResumable
                              THEN FlagRegistry(activeUploads, fileKey, TRUE)
                              ELSE activeUploads
          /\ queue' = WithStatus(queue, id, "paused")
          /\ processingRef' = FALSE
    /\ UNCHANGED <<store, sessions, objects, nextId, restarts,
                   downloadVars, serviceVars>>

\* the pause button, shown on an uploading item
PauseUpload(id) ==
    /\ HasItem(queue, id)
    /\ LET item == ItemOf(queue, id)
           fileKey == ItemFileKey(item)
       IN /\ item.status = "uploading"
          /\ inv' = IF item.isResumable
                    THEN FlagInvocations(inv, activeUploads, fileKey, TRUE)
                    ELSE inv
          /\ activeUploads' = IF item.isResumable
                              THEN FlagRegistry(activeUploads, fileKey, TRUE)
                              ELSE activeUploads
          /\ queue' = WithStatus(queue, id, "paused")
    /\ UNCHANGED <<store, sessions, objects, processingRef, nextId, restarts,
                   downloadVars, serviceVars>>

\* the play button, shown on a paused and on a queued item
ResumeUpload(id) ==
    /\ HasItem(queue, id)
    /\ LET item == ItemOf(queue, id)
           fileKey == ItemFileKey(item)
       IN /\ item.status \in {"paused", "queued"}
          /\ inv' = IF item.isResumable
                    THEN FlagInvocations(inv, activeUploads, fileKey, FALSE)
                    ELSE inv
          /\ activeUploads' = IF item.isResumable
                              THEN FlagRegistry(activeUploads, fileKey, FALSE)
                              ELSE activeUploads
          /\ queue' = WithStatus(queue, id, IF item.isResumable
                                            THEN "uploading" ELSE "queued")
    /\ UNCHANGED <<store, sessions, objects, processingRef, nextId, restarts,
                   downloadVars, serviceVars>>

\* the retry button, shown on an item in error
RetryUpload(id) ==
    /\ HasItem(queue, id)
    /\ ItemOf(queue, id).status = "error"
    /\ queue' = [i \in 1..Len(queue) |->
                    IF queue[i].id = id
                    THEN [queue[i] EXCEPT !.status = "queued", !.error = ""]
                    ELSE queue[i]]
    /\ UNCHANGED <<store, activeUploads, inv, sessions, objects, processingRef,
                   nextId, restarts,
                   downloadVars, serviceVars>>

\* only the file key is removed at the end of removeFromQueue
AlternativeKeysFileOnly(item) == {ItemFileKey(item)}

\* removeFromQueue: the keys removed from localStorage at its end
AlternativeKeys(item) ==
    {ItemFileKey(item), item.key \o <<Str(item.file.name)>>, item.key}

\* the remove button: cancelUpload, abortUpload for an uploading item, the
\* alternative keys, and the item leaves the queue
RemoveFromQueue(id, abortOk) ==
    /\ HasItem(queue, id)
    /\ LET item == ItemOf(queue, id)
           fileKey == ItemFileKey(item)
           cancelled == CancelStore(store, fileKey)
           aborting == item.isResumable /\ item.status = "uploading"
           abortKey == AbortKey(item.key, item.file.name, item.file.size,
                                item.file.lastModified)
           target == IF aborting THEN AbortTarget(cancelled, abortKey) ELSE {}
           aborted == IF aborting THEN RemoveItem(cancelled, abortKey)
                      ELSE cancelled
       IN /\ (target = {}) => abortOk
          /\ inv' = IF item.isResumable
                    THEN CancelInvocations(inv, activeUploads, fileKey)
                    ELSE inv
          /\ activeUploads' = IF item.isResumable
                              THEN CancelRegistry(activeUploads, fileKey)
                              ELSE activeUploads
          /\ sessions' = AbortSessions(sessions, target, abortOk)
          /\ store' = RemoveItems(IF item.isResumable THEN aborted ELSE store,
                                  AlternativeKeys(item))
          /\ queue' = Without(queue, id)
    /\ UNCHANGED <<objects, processingRef, nextId, restarts,
                   downloadVars, serviceVars>>

\* three seconds after an item completed it leaves the queue
AutoRemove(id) ==
    /\ HasItem(queue, id)
    /\ ItemOf(queue, id).status = "completed"
    /\ queue' = Without(queue, id)
    /\ UNCHANGED <<store, activeUploads, inv, sessions, objects, processingRef,
                   nextId, restarts,
                   downloadVars, serviceVars>>

ItemIds == {queue[i].id : i \in 1..Len(queue)}

Next ==
    \/ \E files \in Batches : AddFilesToQueue(files)
    \/ ProcessQueue
    \/ \E id \in ItemIds : PauseUpload(id)
    \/ \E id \in ItemIds : ResumeUpload(id)
    \/ \E id \in ItemIds : RetryUpload(id)
    \/ \E id \in ItemIds, abortOk \in BOOLEAN : RemoveFromQueue(id, abortOk)
    \/ \E id \in ItemIds : AutoRemove(id)
    \/ Restart
    \/ \E s \in Slots :
          \/ InitOk(s) \/ InitFail(s) \/ PartOk(s) \/ PartFail(s)
          \/ PauseOver(s) \/ CompleteOk(s) \/ CompleteFail(s)
          \/ PutOk(s) \/ PutFail(s)

Spec == Init /\ [][Next]_vars

\* The queue left to itself but for the retry button: files are added, the
\* coordinator processes them, uploads fail or complete, failed items are
\* retried, completed items leave.
RetryNext ==
    \/ \E files \in Batches : AddFilesToQueue(files)
    \/ ProcessQueue
    \/ \E id \in ItemIds : RetryUpload(id)
    \/ \E id \in ItemIds : AutoRemove(id)
    \/ \E s \in Slots :
          \/ InitOk(s) \/ InitFail(s) \/ PartOk(s) \/ PartFail(s)
          \/ CompleteOk(s) \/ CompleteFail(s)
          \/ PutOk(s) \/ PutFail(s)

RetrySpec == Init /\ [][RetryNext]_vars

\* the folders the user moves between
Paths == {"", "q/"}

\* handleNavigate(path), while the coordinator is busy or has nothing queued:
\* the render that makes the next processQueue sees the new path
Navigate(path) ==
    /\ path # currentPath
    /\ processingRef \/ QueuedItems(queue) = {}
    /\ currentPath' = path
    /\ UNCHANGED <<uploadVars, downloadVars, configured, rename, abortResult>>

\* Navigation: files are added in one folder and processed while another is
\* shown.
NavNext ==
    \/ \E files \in Batches : AddFilesToQueue(files)
    \/ ProcessQueue
    \/ \E path \in Paths : Navigate(path)
    \/ \E id \in ItemIds : AutoRemove(id)
    \/ \E s \in Slots :
          \/ InitOk(s) \/ PartOk(s) \/ CompleteOk(s) \/ PutOk(s) \/ PutFail(s)

NavSpec == Init /\ [][NavNext]_vars

\* The queue with the pause, play and remove buttons and no page reload.
HoldNext ==
    \/ \E files \in Batches : AddFilesToQueue(files)
    \/ ProcessQueue
    \/ \E id \in ItemIds : PauseUpload(id)
    \/ \E id \in ItemIds : ResumeUpload(id)
    \/ \E id \in ItemIds, abortOk \in BOOLEAN : RemoveFromQueue(id, abortOk)
    \/ \E s \in Slots :
          \/ InitOk(s) \/ PartOk(s) \/ PauseOver(s) \/ CompleteOk(s)
          \/ PutOk(s)

HoldSpec == Init /\ [][HoldNext]_vars

\* the ids of the items addFilesToQueue can create
AddedIds == {<<"added", n>> : n \in 0..MaxEnqueues}

\* RetrySpec in which the three-second timer of every completed item fires
TimerSpec == RetrySpec /\ \A id \in AddedIds : WF_vars(AutoRemove(id))

\* what happens without the user: timers and answers of the object store
SystemNext ==
    \/ ProcessQueue
    \/ \E id \in ItemIds : AutoRemove(id)
    \/ \E s \in Slots :
          \/ InitOk(s) \/ InitFail(s) \/ PartOk(s) \/ PartFail(s)
          \/ PauseOver(s) \/ CompleteOk(s) \/ CompleteFail(s)
          \/ PutOk(s) \/ PutFail(s)

\* ------------------------------------------------------ resumableDownload
downloadKey == <<Str("p/a")>>
downloadName == "a"

\* fileKey = `${key}_${fileName}`
DownloadKey(key, fileName) == key \o <<Str(fileName)>>

\* sizes of the downloaded object: none, one and several chunks, with and
\* without a short last chunk
ObjectSizes ==
    {n * CHUNK_SIZE + d : n \in 0..(MaxChunks - 1), d \in {0, 1}}
        \cup {MaxChunks * CHUNK_SIZE}

\* the bytes of the object from start to end, as getObject with Range
\* answers them: what lies past the object's end is cut off
Body(obj, start, end) ==
    <<[version |-> obj.lastModified, from |-> start,
       to |-> Min(end, obj.size - 1)]>>

\* a byte sequence in its normal form: ranges that continue each other are
\* one range
RECURSIVE Bytes(_)
Bytes(ranges) ==
    IF Len(ranges) <= 1 THEN ranges
    ELSE LET first == Head(ranges)
             rest == Bytes(Tail(ranges))
         IN IF /\ rest[1].version = first.version
               /\ rest[1].from = first.to + 1
            THEN <<[first EXCEPT !.to = rest[1].to]>> \o Tail(rest)
            ELSE <<first>> \o rest

\* loadDownloadProgress: the record, or null
LoadDownloadProgress(st, k) == IF k \in DOMAIN st THEN st[k] ELSE Null

\* new Blob(allChunks)
RECURSIVE Blob(_)
Blob(allChunks) ==
    IF allChunks = <<>> THEN <<>>
    ELSE Bytes(Head(allChunks) \o Blob(Tail(allChunks)))

\* the whole object, fetched at once
WholeObject(obj) ==
    IF obj.size = 0 THEN <<>> ELSE Bytes(Body(obj, 0, obj.size - 1))

\* a chunk table whose ranges end one byte late
NewChunksOverlapping(totalSize) ==
    [i \in 0..(TotalChunks(totalSize) - 1) |->
        [start |-> i * CHUNK_SIZE,
         end |-> Min(i * CHUNK_SIZE + CHUNK_SIZE, totalSize - 1),
         downloaded |-> FALSE]]

\* the chunk table of a new DownloadProgress
NewChunks(totalSize) ==
    [i \in 0..(TotalChunks(totalSize) - 1) |->
        [start |-> i * CHUNK_SIZE,
         end |-> Min(i * CHUNK_SIZE + CHUNK_SIZE - 1, totalSize - 1),
         downloaded |-> FALSE]]

NewDownloadProgress(totalSize, lastModified) ==
    [totalSize |-> totalSize, downloadedSize |-> 0,
     chunks |-> NewChunks(totalSize), fileName |-> downloadName,
     key |-> downloadKey, lastModified |-> lastModified]

\* the assembly loop without the fetch of the chunks this call did not
\* download
RECURSIVE AssembleNoRefetch(_)
AssembleNoRefetch(d) ==
    LET i == d.index
    IN IF i >= Cardinality(DOMAIN d.progress.chunks)
       THEN [d EXCEPT !.pc = "done", !.result = Blob(d.allChunks)]
       ELSE IF i \in DOMAIN d.downloadedChunks
       THEN AssembleNoRefetch([d EXCEPT
                !.allChunks = Append(@, d.downloadedChunks[i]),
                !.index = i + 1])
       ELSE AssembleNoRefetch([d EXCEPT !.index = i + 1])

\* the assembly loop with a getObject for every chunk, in hand or not
AssembleRefetchAll(d) ==
    LET i == d.index
    IN IF i >= Cardinality(DOMAIN d.progress.chunks)
       THEN [d EXCEPT !.pc = "done", !.result = Blob(d.allChunks)]
       ELSE [d EXCEPT !.pc = "assemble", !.rangeCalls = Append(@, i)]

\* the assembly loop from chunk d.index on, up to its next getObject or to
\* the return of the Blob
RECURSIVE Assemble(_)
Assemble(d) ==
    LET i == d.index
    IN IF i >= Cardinality(DOMAIN d.progress.chunks)
       THEN [d EXCEPT !.pc = "done", !.result = Blob(d.allChunks)]
       ELSE IF i \in DOMAIN d.downloadedChunks
       THEN Assemble([d EXCEPT
                !.allChunks = Append(@, d.downloadedChunks[i]),
                !.index = i + 1])
       ELSE [d EXCEPT !.pc = "assemble", !.rangeCalls = Append(@, i)]

\* the fetch loop, up to its next getObject; after the last chunk the
\* assembly loop
FetchLoop(d) ==
    LET missing == {i \in DOMAIN d.progress.chunks :
                        ~d.progress.chunks[i].downloaded}
        next == CHOOSE i \in missing : \A j \in missing : i <= j
    IN IF missing # {}
       THEN [d EXCEPT !.pc = "chunk", !.index = next,
                      !.rangeCalls = Append(@, next)]
       ELSE Assemble([d EXCEPT !.index = 0])

\* the record in localStorage when the invocation d has run up to its next
\* await: cleared before the Blob is returned
Cleared(d, st) ==
    IF d.pc = "done"
    THEN RemoveItem(st, DownloadKey(downloadKey, downloadName))
    ELSE st

\* resumableDownload(key, fileName, onProgress) up to its headObject
StartDownload(caller) ==
    IF ~configured
    THEN [IdleDownload EXCEPT !.pc = "failed", !.caller = caller]
    ELSE [IdleDownload EXCEPT
            !.pc = "head", !.caller = caller,
            !.progress = LoadDownloadProgress(downloads,
                             DownloadKey(downloadKey, downloadName))]

\* the download manager when the call it started went from d to e: the
\* progress callback after a fetched chunk, the entry dropped after the
\* Blob, the spinner stopped when the call is over
Tracked(t, d, e) ==
    LET key == DownloadKey(downloadKey, downloadName)
        pending == t.pendingDownloads
        reported ==
            IF d.pc = "chunk" /\ e.pc # "failed"
            THEN SetItem(pending, key,
                     IF key \in DOMAIN pending
                     THEN [pending[key] EXCEPT
                              !.downloadedSize = e.progress.downloadedSize]
                     ELSE [downloadedSize |-> e.progress.downloadedSize])
            ELSE pending
    IN IF d.caller # "manager" \/ ~t.open THEN t
       ELSE [t EXCEPT
               !.pendingDownloads =
                   IF e.pc = "done" THEN RemoveItem(reported, key)
                   ELSE reported,
               !.activeDownloads =
                   IF e.pc \in {"done", "failed"} THEN @ \ {key} ELSE @]

\* resumableDownload is called from outside the download manager
\* (FileList.handleDownload)
CallDownload ==
    /\ dl.pc \in {"idle", "done", "failed"}
    /\ calls < MaxCalls
    /\ calls' = calls + 1
    /\ dl' = StartDownload("list")
    /\ UNCHANGED <<remote, downloads, tracker, changes, uploadVars, serviceVars>>

\* headObject answered and the record is kept whatever its modification time
HeadOkKeepsRecord ==
    /\ dl.pc = "head"
    /\ LET totalSize == remote.size
           lastModified == remote.lastModified
           progress == IF dl.progress = Null
                       THEN NewDownloadProgress(totalSize, lastModified)
                       ELSE dl.progress
           d == FetchLoop([dl EXCEPT !.progress = progress,
                                     !.lastModified = lastModified])
       IN /\ dl' = d
          /\ downloads' = Cleared(d, downloads)
          /\ tracker' = Tracked(tracker, dl, d)
    /\ UNCHANGED <<remote, calls, changes, uploadVars, serviceVars>>

\* headObject answered
HeadOk ==
    /\ dl.pc = "head"
    /\ LET fileKey == DownloadKey(downloadKey, downloadName)
           totalSize == remote.size
           lastModified == remote.lastModified
           stale == /\ dl.progress # Null
                    /\ dl.progress.lastModified # lastModified
           progress == IF dl.progress = Null \/ stale
                       THEN NewDownloadProgress(totalSize, lastModified)
                       ELSE dl.progress
           d == FetchLoop([dl EXCEPT !.progress = progress,
                                     !.lastModified = lastModified])
       IN /\ dl' = d
          /\ downloads' = Cleared(d, IF stale THEN RemoveItem(downloads, fileKey)
                                     ELSE downloads)
          /\ tracker' = Tracked(tracker, dl, d)
    /\ UNCHANGED <<remote, calls, changes, uploadVars, serviceVars>>

\* a store call of the invocation failed: the catch block throws it again
DownloadFail ==
    /\ dl.pc \in {"head", "chunk", "assemble"}
    /\ dl' = [dl EXCEPT !.pc = "failed"]
    /\ tracker' = Tracked(tracker, dl, dl')
    /\ UNCHANGED <<remote, downloads, calls, changes, uploadVars, serviceVars>>

\* getObject of the fetch loop answered
ChunkOk ==
    /\ dl.pc = "chunk"
    /\ LET index == dl.index
           chunkInfo == dl.progress.chunks[index]
           progress == [dl.progress EXCEPT
                          !.chunks[index].downloaded = TRUE,
                          !.downloadedSize =
                              @ + (chunkInfo.end - chunkInfo.start + 1)]
           saved == SetItem(downloads,
                            DownloadKey(downloadKey, downloadName), progress)
           d == FetchLoop([dl EXCEPT
                   !.progress = progress,
                   !.reported =
                       [index |-> index,
                        downloadedSize |-> progress.downloadedSize,
                        totalSize |-> progress.totalSize,
                        persisted |-> LoadDownloadProgress(saved,
                            DownloadKey(downloadKey, downloadName))],
                   !.downloadedChunks =
                       SetItem(@, index,
                               Body(remote, chunkInfo.start, chunkInfo.end))])
       IN /\ chunkInfo.start < remote.size
          /\ dl' = d
          /\ downloads' = Cleared(d, saved)
          /\ tracker' = Tracked(tracker, dl, d)
    /\ UNCHANGED <<remote, calls, changes, uploadVars, serviceVars>>

\* getObject of the assembly loop answered
AssembleOk ==
    /\ dl.pc = "assemble"
    /\ LET chunkInfo == dl.progress.chunks[dl.index]
           d == Assemble([dl EXCEPT
                   !.allChunks =
                       Append(@, Body(remote, chunkInfo.start, chunkInfo.end)),
                   !.index = @ + 1])
       IN /\ chunkInfo.start < remote.size
          /\ dl' = d
          /\ downloads' = Cleared(d, downloads)
          /\ tracker' = Tracked(tracker, dl, d)
    /\ UNCHANGED <<remote, calls, changes, uploadVars, serviceVars>>

\* somebody replaces the object in the store
ObjectChange ==
    /\ changes < MaxChanges
    /\ changes' = changes + 1
    /\ \E size \in ObjectSizes :
          remote' = [size |-> size, lastModified |-> remote.lastModified + 1]
    /\ UNCHANGED <<downloads, dl, tracker, calls, uploadVars, serviceVars>>

\* the download manager is shown: getPendingDownloads
OpenManager ==
    /\ ~tracker.open
    /\ tracker' = [open |-> TRUE, pendingDownloads |-> downloads,
                   activeDownloads |-> {}]
    /\ UNCHANGED <<remote, downloads, dl, calls, changes, uploadVars, serviceVars>>

\* the download manager is closed; a call it started goes on and its
\* callbacks reach no mounted component
CloseManager ==
    /\ tracker.open
    /\ tracker' = ClosedManager
    /\ dl' = IF dl.caller = "manager" THEN [dl EXCEPT !.caller = "unmounted"]
             ELSE dl
    /\ UNCHANGED <<remote, downloads, calls, changes, uploadVars, serviceVars>>

\* resumeDownload(key, download) on a listed download
ResumeDownload ==
    LET key == DownloadKey(downloadKey, downloadName)
    IN /\ tracker.open
       /\ key \in DOMAIN tracker.pendingDownloads
       /\ key \notin tracker.activeDownloads
       /\ "key" \in DOMAIN tracker.pendingDownloads[key]
       /\ dl.pc \in {"idle", "done", "failed"}
       /\ calls < MaxCalls
       /\ calls' = calls + 1
       /\ dl' = StartDownload("manager")
       /\ tracker' = Tracked([tracker EXCEPT !.activeDownloads = @ \cup {key}],
                             dl', dl')
       /\ UNCHANGED <<remote, downloads, changes, uploadVars, serviceVars>>

\* cancelDownload(key) on a listed download
CancelDownload ==
    LET key == DownloadKey(downloadKey, downloadName)
        download == tracker.pendingDownloads[key]
    IN /\ tracker.open
       /\ key \in DOMAIN tracker.pendingDownloads
       /\ downloads' = IF "key" \in DOMAIN download
                       THEN RemoveItem(downloads,
                                DownloadKey(download.key, download.fileName))
                       ELSE downloads
       /\ tracker' = [tracker EXCEPT
                        !.pendingDownloads = RemoveItem(@, key)]
       /\ UNCHANGED <<remote, dl, calls, changes, uploadVars, serviceVars>>

DownloadInit ==
    /\ UploadInit
    /\ \E size \in ObjectSizes : remote = [size |-> size, lastModified |-> 1]
    /\ DownloadIdle
    /\ ServiceInit

DownloadNext ==
    \/ CallDownload
    \/ HeadOk
    \/ DownloadFail
    \/ ChunkOk
    \/ AssembleOk
    \/ ObjectChange
    \/ OpenManager
    \/ CloseManager
    \/ ResumeDownload
    \/ CancelDownload

DownloadSpec == DownloadInit /\ [][DownloadNext]_vars

\* s3Service.configure(config)
Configure ==
    /\ ~configured
    /\ configured' = TRUE
    /\ UNCHANGED <<uploadVars, downloadVars, currentPath, rename, abortResult>>

\* the page is loaded again with no saved configuration: memory is lost, the
\* records in localStorage and the object store stay
ReloadLoggedOut ==
    /\ restarts < MaxRestarts
    /\ restarts' = restarts + 1
    /\ configured' = FALSE
    /\ inv' = [s \in Slots |-> IdleInv]
    /\ activeUploads' = <<>>
    /\ dl' = IdleDownload
    /\ abortResult' = ""
    /\ UNCHANGED <<store, sessions, objects, queue, processingRef, nextId,
                   remote, downloads, tracker, calls, changes, currentPath,
                   rename>>

\* no upload has been started or aborted
UploadIdle ==
    /\ store = <<>>
    /\ activeUploads = <<>>
    /\ inv = [s \in Slots |-> IdleInv]
    /\ sessions = <<>>
    /\ abortResult = ""

\* Rejection: the engine is called before the client is configured, after it
\* is, and again after a reload that lost the configuration; a run has
\* uploads or downloads.
RejectInit ==
    /\ UploadInit
    /\ remote = [size |-> CHUNK_SIZE + 1, lastModified |-> 1]
    /\ DownloadIdle
    /\ configured = FALSE
    /\ currentPath = ""
    /\ rename = IdleRename
    /\ abortResult = ""

RejectNext ==
    \/ Configure
    \/ ReloadLoggedOut
    \/ \E file \in Files : DownloadIdle /\ CallUpload(file)
    \/ \E file \in Files, ok \in BOOLEAN : DownloadIdle /\ CallAbort(file, ok)
    \/ \E s \in Slots :
          \/ InitOk(s)
          \/ InitFail(s)
          \/ PartOk(s)
          \/ PartFail(s)
          \/ CompleteOk(s)
          \/ CompleteFail(s)
    \/ UploadIdle /\ CallDownload
    \/ HeadOk
    \/ DownloadFail
    \/ ChunkOk
    \/ AssembleOk

RejectSpec == RejectInit /\ [][RejectNext]_vars

\* Uploads and downloads of the engine. The two directions share no state
\* (records under different localStorage prefixes, no common field): a run
\* transfers in one direction.
TransferNext ==
    \/ \E file \in Files : DownloadIdle /\ CallUpload(file)
    \/ \E fileKey \in FileKeys : DownloadIdle /\ CallCancel(fileKey)
    \/ \E s \in Slots :
          \/ DownloadIdle /\ InitOk(s)
          \/ DownloadIdle /\ InitFail(s)
          \/ DownloadIdle /\ PartOk(s)
          \/ DownloadIdle /\ PartFail(s)
          \/ DownloadIdle /\ CompleteOk(s)
          \/ DownloadIdle /\ CompleteFail(s)
    \/ UploadInit /\ CallDownload
    \/ UploadInit /\ HeadOk
    \/ UploadInit /\ DownloadFail
    \/ UploadInit /\ ChunkOk
    \/ UploadInit /\ AssembleOk
    \/ UploadInit /\ ObjectChange
    \/ UploadInit /\ OpenManager
    \/ UploadInit /\ CloseManager
    \/ UploadInit /\ ResumeDownload
    \/ UploadInit /\ CancelDownload

TransferSpec == Init /\ [][TransferNext]_vars

\* ============================================================== properties
RunningSlots == {s \in Slots : inv[s].pc \in Running}

\* the parts a loaded record holds are 1..k
Prefix(progress) == Cardinality(DOMAIN progress.parts)

\* C1 (Resumability): an invocation that found the record of an interrupted
\* upload with parts 1..k calls initMultipart no more, calls uploadPart for
\* k+1, k+2, ... in this order and for nothing else, and completes the same
\* session with the manifest 1..n carrying the tags recorded for the parts.
C1_Resumes ==
    \A s \in RunningSlots :
        LET v == inv[s]
            k == Prefix(v.loaded)
            n == TotalChunks(v.file.size)
        IN v.loaded # Null =>
            /\ DOMAIN v.loaded.parts = 1..k
            /\ ~v.initCalled
            /\ Len(v.partCalls) <= n - k
            /\ \A i \in 1..Len(v.partCalls) : v.partCalls[i] = k + i
            /\ v.progress.uploadId = v.loaded.uploadId
            /\ v.pc = "complete" =>
                 /\ Len(v.partCalls) = n - k
                 /\ v.manifest =
                      [i \in 1..n |->
                          [ETag |-> IF i <= k THEN v.loaded.parts[i].etag
                                    ELSE ETag(v.loaded.uploadId, i),
                           PartNumber |-> i]]

\* C1 witness: after a restart an upload interrupted after k of n parts,
\* 1 <= k < n, has uploaded the rest and sends its manifest
C1_Witness ==
    \E s \in RunningSlots :
        /\ restarts >= 1
        /\ inv[s].loaded # Null
        /\ Prefix(inv[s].loaded) >= 1
        /\ Len(inv[s].partCalls) >= 1
        /\ inv[s].pc = "complete"

\* C3 (Identity invalidation), as claimed: while an upload of a file runs, the
\* store holds no record of the same destination and name for another size
\* or modification time: the earlier record was deleted when it started.
C3_EarlierRecordDeleted ==
    \A s \in RunningSlots : \A k \in DOMAIN store :
        (store[k].key = inv[s].key /\ store[k].fileName = inv[s].file.name)
            => k = inv[s].fileKey

C2_OneUploading ==
    Cardinality({i \in 1..Len(queue) : queue[i].status = "uploading"}) <= 1

\* C6, as claimed: when an invocation that cancelUpload has reached
\* terminates, no record is persisted for its identity.
C6_NoRecordAfterCancel ==
    [][\A s \in Slots :
          (/\ inv[s].pc \in Running
           /\ inv[s].isAborted
           /\ inv'[s].pc \notin Running
           /\ restarts' = restarts)
          => inv[s].fileKey \notin DOMAIN store']_vars

\* C7, as claimed: the step that removes an uploading resumable item whose
\* session is recorded calls abortMultipart for that session.
C7_RemoveAborts ==
    [][\A i \in 1..Len(queue) :
          LET item == queue[i]
              fileKey == ItemFileKey(item)
          IN (/\ item.status = "uploading"
              /\ item.isResumable
              /\ fileKey \in DOMAIN store
              /\ ~HasItem(queue', item.id)
              /\ restarts' = restarts)
             => sessions'[store[fileKey].uploadId].abortCalled]_vars

\* an upload runs for the identity fileKey
RunsFor(fileKey) == \E s \in RunningSlots : inv[s].fileKey = fileKey

\* C8, as claimed: an item queued again by retry after initMultipart failed
\* (its controller is still registered, for no invocation) gets a new
\* invocation: an upload runs for it or the application can take a step by
\* itself.
C8_RetryStarts ==
    \A i \in 1..Len(queue) :
        LET fileKey == ItemFileKey(queue[i])
        IN (/\ queue[i].status = "queued"
            /\ queue[i].isResumable
            /\ fileKey \in DOMAIN activeUploads
            /\ activeUploads[fileKey].owner = 0)
           => RunsFor(fileKey) \/ ENABLED <<SystemNext>>_vars

\* C9, as claimed: an item is 'completed' only if the object store accepted
\* its object.
C9_CompletedIsStored ==
    \A i \in 1..Len(queue) :
        queue[i].status = "completed" => queue[i].key \in objects

\* C10, as claimed: an item surfaced by startup reconciliation that the user
\* resumed is uploaded: an upload runs for its identity or the application
\* can take a step by itself.
C10_ResumedIsUploaded ==
    \A i \in 1..Len(queue) :
        (queue[i].id[1] = "pending" /\ queue[i].status = "uploading")
            => RunsFor(queue[i].key) \/ ENABLED <<SystemNext>>_vars

\* C4 (Download reassembly): the Blob a resumableDownload call returns, the
\* object being the one its headObject saw, is the whole object: the byte
\* ranges of its chunks in index order.
C4_Reassembly ==
    (dl.pc = "done" /\ remote.lastModified = dl.lastModified)
        => dl.result = WholeObject(remote)

\* a call returned an object of several chunks after an earlier call failed;
\* it fetched some chunks in its assembly loop
C4_Witness ==
    /\ dl.pc = "done"
    /\ calls >= 2
    /\ remote.lastModified = dl.lastModified
    /\ Cardinality(DOMAIN dl.progress.chunks) >= 2
    /\ DOMAIN dl.downloadedChunks # DOMAIN dl.progress.chunks
    /\ DOMAIN dl.downloadedChunks # {}
    /\ dl.result = WholeObject(remote)

\* the transfer identity of a queue item, as a storage key: an item surfaced
\* by loadPendingUploads carries the whole storage key as its key
ItemIdentity(item) ==
    IF item.id[1] = "pending" THEN item.key ELSE ItemFileKey(item)

\* C11, as claimed: no two items of the queue have the same transfer
\* identity (destination, file name, size, modification time).
C11_NoDuplicateIdentity ==
    \A i, j \in 1..Len(queue) :
        i # j => ItemIdentity(queue[i]) # ItemIdentity(queue[j])

C13_CompletionRetry ==
    [][\A s \in Slots :
          LET v == inv[s]
              w == inv'[s]
              n == TotalChunks(v.file.size)
              m == TotalChunks(w.file.size)
          IN /\ (/\ v.pc = "complete"
                 /\ w.pc = "ended"
                 /\ w.outcome = ErrStore)
                => /\ v.fileKey \in DOMAIN store'
                   /\ store'[v.fileKey] = v.progress
                   /\ DOMAIN v.progress.parts = 1..n
                   /\ v.manifest =
                        [i \in 1..n |->
                            [ETag |-> store'[v.fileKey].parts[i].etag,
                             PartNumber |-> i]]
             /\ (/\ w.pc \in Running
                 /\ w.loaded # Null
                 /\ DOMAIN w.loaded.parts = 1..m)
                => /\ ~w.initCalled
                   /\ w.partCalls = <<>>
                   /\ w.progress = w.loaded
                   /\ w.pc = "complete"
                        => w.manifest =
                             [i \in 1..m |->
                                 [ETag |-> w.loaded.parts[i].etag,
                                  PartNumber |-> i]]]_vars

\* the completion of an upload of several parts failed and the caller's next
\* invocation, which loaded all the parts, is completing
C13_Witness ==
    \E s \in RunningSlots :
        /\ inv[s].pc = "complete"
        /\ inv[s].loaded # Null
        /\ Prefix(inv[s].loaded) = TotalChunks(inv[s].file.size)
        /\ Prefix(inv[s].loaded) >= 2
        /\ restarts = 0

\* the invocations of resumableUpload that are running
EngineSlots == {s \in RunningSlots : inv[s].pc # "put"}

\* C14 (One invocation per identity): no two invocations of resumableUpload
\* started by the queue run for the same transfer identity, a cancelled one
\* whose store call is still in flight included.
C14_OneInvocationPerIdentity ==
    \A s, t \in EngineSlots : s # t => inv[s].fileKey # inv[t].fileKey

\* a cancelled invocation still waits for its uploadPart while an item of
\* the same identity is queued again
C14_Witness ==
    \E s \in EngineSlots :
        /\ inv[s].isAborted
        /\ inv[s].pc = "part"
        /\ inv[s].fileKey \notin DOMAIN activeUploads
        /\ \E i \in 1..Len(queue) :
              /\ queue[i].status = "queued"
              /\ ItemFileKey(queue[i]) = inv[s].fileKey

\* C15, as claimed: a download record that was deleted (by the tracker's
\* cancel) is not written again by a call that was running before: the call
\* that writes a record where none is has no chunk downloaded yet.
C15_NoRecordAfterCancel ==
    [][LET key == DownloadKey(downloadKey, downloadName)
       IN (key \notin DOMAIN downloads /\ key \in DOMAIN downloads')
            => \A i \in DOMAIN dl.progress.chunks :
                   ~dl.progress.chunks[i].downloaded]_vars

\* C16, as claimed: an invocation that cancelUpload has reached issues no
\* further uploadPart and no completeMultipartUpload.
C16_CancelStops ==
    [][\A s \in Slots :
          (inv[s].isAborted /\ inv[s].pc \in Running /\ inv'[s].pc \in Running)
            => /\ inv'[s].partCalls = inv[s].partCalls
               /\ inv'[s].pc = "complete" => inv[s].pc = "complete"]_vars

\* C17 (Failure persists progress): when uploadPart or
\* completeMultipartUpload fails in an invocation that is not cancelled, the
\* invocation ends with the store's error, the record persisted holds the
\* session id and exactly the parts the store acknowledged, and no controller
\* is registered for the identity.
C17_FailurePersists ==
    [][\A s \in Slots :
          LET v == inv[s]
          IN (/\ v.pc \in {"part", "complete"}
              /\ ~v.isAborted
              /\ inv'[s].pc = "ended"
              /\ inv'[s].outcome # "ok")
             => /\ inv'[s].outcome = ErrStore
                /\ v.fileKey \in DOMAIN store'
                /\ store'[v.fileKey] = v.progress
                /\ DOMAIN v.progress.parts = sessions[v.progress.uploadId].parts
                /\ v.fileKey \notin DOMAIN activeUploads']_vars

\* an uploadPart after the first has just failed in an invocation that is
\* not cancelled: the record holds the parts before it
C17_Witness ==
    \E s \in Slots :
        /\ inv[s].pc = "ended"
        /\ inv[s].outcome = ErrStore
        /\ ~inv[s].isAborted
        /\ inv[s].fileKey \in DOMAIN store
        /\ store[inv[s].fileKey].parts # <<>>
        /\ Cardinality(DOMAIN store[inv[s].fileKey].parts)
              < TotalChunks(inv[s].file.size)

\* no element of the sequence of calls occurs twice
Once(issued) ==
    \A i, j \in 1..Len(issued) : i # j => issued[i] # issued[j]

\* C18 (No automatic retry): one invocation of resumableUpload passes each
\* part number to uploadPart at most once, one invocation of
\* resumableDownload asks for each chunk at most once: no call that failed
\* is issued again, and an invocation that met a store error is over.
C18_NoRetry ==
    /\ \A s \in EngineSlots : Once(inv[s].partCalls)
    /\ Once(dl.rangeCalls)
    /\ \A s \in Slots : inv[s].outcome = ErrStore => inv[s].pc = "ended"

\* the invocation of resumableDownload failed at a getObject after a fetched
\* chunk
C18_Witness ==
    /\ dl.pc = "failed"
    /\ Len(dl.rangeCalls) >= 2

\* C19 (Persist before report): whenever the progress callback has been
\* invoked for an acknowledged part or a fetched chunk, the record that
\* localStorage held at that moment already contained that part or chunk and
\* the byte count the callback was given.
C19_PersistBeforeReport ==
    /\ \A s \in Slots :
           inv[s].reported # Null =>
               LET r == inv[s].reported
               IN /\ r.persisted # Null
                  /\ r.partNumber \in DOMAIN r.persisted.parts
                  /\ r.persisted.uploadedSize = r.uploadedSize
    /\ dl.reported # Null =>
           LET r == dl.reported
           IN /\ r.persisted # Null
              /\ r.persisted.chunks[r.index].downloaded
              /\ r.persisted.downloadedSize = r.downloadedSize

\* the callback has been invoked for the second part and the third is in
\* flight
C19_Witness ==
    \E s \in Slots :
        /\ inv[s].pc = "part"
        /\ inv[s].reported # Null
        /\ inv[s].reported.partNumber = 2
        /\ inv[s].partNumber = 3

\* the step issues uploadPart in slot s
IssuesPart(s) ==
    /\ inv'[s].pc = "part"
    /\ inv'[s].partCalls # <<>>
    /\ inv'[s].partCalls # inv[s].partCalls

\* C20 (Part ordering): when uploadPart is issued for part N, the persisted
\* record of the identity holds every part below N, N is above every part
\* number the invocation has issued before, and every earlier uploadPart of
\* the invocation has been answered.
C20_PartOrdering ==
    [][\A s \in Slots :
          IssuesPart(s) =>
              LET v == inv'[s]
                  N == v.partNumber
                  earlier == {v.partCalls[i] : i \in 1..(Len(v.partCalls) - 1)}
              IN /\ v.partCalls[Len(v.partCalls)] = N
                 /\ \A n \in 1..(N - 1) :
                        /\ v.fileKey \in DOMAIN store'
                        /\ n \in DOMAIN store'[v.fileKey].parts
                 /\ \A n \in earlier : n < N
                 /\ earlier \subseteq DOMAIN v.progress.parts]_vars

\* the sum of the sizes of the parts of a record's mapping
RECURSIVE SumSizes(_)
SumSizes(parts) ==
    IF DOMAIN parts = {} THEN 0
    ELSE LET n == CHOOSE m \in DOMAIN parts : TRUE
         IN parts[n].size + SumSizes(RemoveItem(parts, n))

\* C21 (Upload record invariant): in every persisted upload record
\* uploadedSize is the sum of the sizes of the parts of its mapping, it is at
\* most totalSize, and the part numbers of the mapping are exactly the parts
\* the store acknowledged for the record's session.
C21_UploadRecord ==
    \A k \in DOMAIN store :
        LET p == store[k]
        IN /\ p.uploadedSize = SumSizes(p.parts)
           /\ p.uploadedSize <= p.totalSize
           /\ DOMAIN p.parts = sessions[p.uploadId].parts

\* a persisted record holds both parts of a two-part file and the store has
\* acknowledged both for its session
C21_Witness ==
    \E k \in DOMAIN store :
        /\ DOMAIN store[k].parts = {1, 2}
        /\ store[k].uploadedSize = store[k].totalSize
        /\ sessions[store[k].uploadId].parts = {1, 2}

\* the sum of the range lengths of the chunks of S
RECURSIVE SumRanges(_, _)
SumRanges(chunks, S) ==
    IF S = {} THEN 0
    ELSE LET i == CHOOSE j \in S : TRUE
         IN (chunks[i].end - chunks[i].start + 1)
                + SumRanges(chunks, S \ {i})

\* C22 (Download record invariant): in every persisted download record the
\* chunk ranges, taken by index, start at 0, continue each other without gap
\* or overlap and end at totalSize - 1, and downloadedSize is the sum of the
\* range lengths of the chunks marked downloaded.
C22_DownloadRecord ==
    \A k \in DOMAIN downloads :
        LET p == downloads[k]
            n == Cardinality(DOMAIN p.chunks)
        IN /\ DOMAIN p.chunks = 0..(n - 1)
           /\ n > 0 => /\ p.chunks[0].start = 0
                       /\ p.chunks[n - 1].end = p.totalSize - 1
           /\ \A i \in 1..(n - 1) : p.chunks[i].start = p.chunks[i - 1].end + 1
           /\ \A i \in 0..(n - 1) : p.chunks[i].start <= p.chunks[i].end
           /\ p.downloadedSize =
                  SumRanges(p.chunks,
                            {i \in DOMAIN p.chunks : p.chunks[i].downloaded})

\* a persisted record of three chunks, the last one shorter, with the first
\* two downloaded
C22_Witness ==
    \E k \in DOMAIN downloads :
        LET p == downloads[k]
        IN /\ Cardinality(DOMAIN p.chunks) = 3
           /\ p.chunks[2].end - p.chunks[2].start + 1 < CHUNK_SIZE
           /\ p.chunks[0].downloaded /\ p.chunks[1].downloaded
           /\ ~p.chunks[2].downloaded

\* file sizes the engine accepts: at the threshold, one byte more, whole
\* multiples of the chunk size and one byte around them, and 27 MiB
PartitionSizes ==
    {ResumableThreshold, ResumableThreshold + 1, 3 * CHUNK_SIZE - 1,
     3 * CHUNK_SIZE, BigSize, 27 * 1024 * 1024, 6 * CHUNK_SIZE + 1}
        \cup {f.size : f \in {g \in Files : ~TooSmall(g.size)}}

\* the parts of a file of this size, as the loop of resumableUpload cuts them
Partitioned(size) ==
    LET n == TotalChunks(size)
    IN /\ n * CHUNK_SIZE >= size
       /\ (n - 1) * CHUNK_SIZE < size
       /\ \A i \in 1..(n - 1) : ChunkSize(size, i) = CHUNK_SIZE
       /\ ChunkSize(size, n) = size - (n - 1) * CHUNK_SIZE
       /\ ChunkSize(size, n) \in 1..CHUNK_SIZE

\* C23 (Upload partitioning): a file of an accepted size is cut into
\* ceil(size / CHUNK_SIZE) parts, all of CHUNK_SIZE bytes but the last, which
\* has the rest, between 1 and CHUNK_SIZE bytes (27 MiB: 6 parts, the last of
\* 2 MiB); the manifest passed to completeMultipartUpload lists the parts
\* 1..n in ascending order and the record counts size bytes uploaded.
C23_Partitioning ==
    /\ \A size \in PartitionSizes : Partitioned(size)
    /\ TotalChunks(27 * 1024 * 1024) = 6
    /\ ChunkSize(27 * 1024 * 1024, 6) = 2 * 1024 * 1024
    /\ \A s \in Slots :
           inv[s].pc = "complete" =>
               LET v == inv[s]
                   n == TotalChunks(v.file.size)
               IN /\ Len(v.manifest) = n
                  /\ \A i \in 1..n :
                         /\ v.manifest[i].PartNumber = i
                         /\ v.progress.parts[i].size = ChunkSize(v.file.size, i)
                  /\ DOMAIN v.progress.parts = 1..n
                  /\ v.progress.uploadedSize = v.file.size

\* completeMultipartUpload is in flight for the three-part file whose last
\* part is one byte, in an invocation that resumed a record
C23_Witness ==
    \E s \in Slots :
        /\ inv[s].pc = "complete"
        /\ inv[s].file.size = BigSize
        /\ inv[s].loaded # Null
        /\ Len(inv[s].manifest) = 3

\* the lowest part number of the file that the progress does not hold
LowestMissing(v) ==
    LET missing == (1..TotalChunks(v.file.size)) \ DOMAIN v.progress.parts
    IN CHOOSE n \in missing : \A m \in missing : n <= m

\* C24 (Pause): a step issues uploadPart only when the pause flag was clear
\* before it; the step that starts the pause wait leaves the current record
\* persisted; while the flag is set and the upload is not cancelled the
\* invocation stays in the wait; the uploadPart issued when the wait ends is
\* for the lowest part not yet acknowledged; a wait that ends after
\* cancelUpload ends the invocation with the cancellation error.
C24_Pause ==
    [][\A s \in Slots :
          LET v == inv[s]
              w == inv'[s]
          IN /\ IssuesPart(s) /\ v.pc \in Running => ~v.isPaused
             /\ (v.pc \in {"init", "part"} /\ w.pc = "paused")
                    => /\ w.fileKey \in DOMAIN store'
                       /\ store'[w.fileKey] = w.progress
             /\ (v.pc = "paused" /\ v.isPaused /\ ~v.isAborted)
                    => /\ w.pc = "paused"
                       /\ w.partCalls = v.partCalls
             /\ (v.pc = "paused" /\ IssuesPart(s))
                    => w.partNumber = LowestMissing(v)
             /\ (v.pc = "paused" /\ v.isAborted /\ w.pc # "paused")
                    => /\ w.pc = "ended"
                       /\ w.outcome = ErrCancelled]_vars

\* an invocation that holds the first part waits in the pause and
\* resumeUpload has cleared its flag
C24_Witness ==
    \E s \in Slots :
        /\ inv[s].pc = "paused"
        /\ ~inv[s].isPaused
        /\ ~inv[s].isAborted
        /\ DOMAIN inv[s].progress.parts = {1}
        /\ inv[s].fileKey \in DOMAIN store

\* the positions of the items in status queued
Waiting(q) == {i \in 1..Len(q) : q[i].status = "queued"}

FirstWaiting(q) == CHOOSE i \in Waiting(q) : \A j \in Waiting(q) : i <= j

\* C25 (Strict arrival order): when the coordinator starts processing, the
\* item whose upload it starts is the item in status queued at the lowest
\* position of the queue; and when the coordinator is idle, an item in error
\* stands before the first queued item and no upload is registered for that
\* item's identity, the coordinator can start it.
C25_ArrivalOrder ==
    /\ [][(~processingRef /\ processingRef')
             => /\ Waiting(queue) # {}
                /\ \A s \in Slots :
                       (inv'[s].item # NoItem /\ inv'[s].item # inv[s].item)
                           => inv'[s].item = queue[FirstWaiting(queue)].id]_vars
    /\ []((/\ ~processingRef
           /\ Waiting(queue) # {}
           /\ \E i \in 1..Len(queue) :
                  i < FirstWaiting(queue) /\ queue[i].status = "error"
           /\ ~IsUploadActive(activeUploads,
                              ItemFileKey(queue[FirstWaiting(queue)])))
              => ENABLED <<ProcessQueue>>_vars)

\* the upload of the second item runs while the first item is in error
C25_Witness ==
    /\ Len(queue) >= 2
    /\ queue[1].status = "error"
    /\ queue[2].status = "uploading"
    /\ processingRef
    /\ \E s \in Slots : inv[s].item = queue[2].id /\ inv[s].pc \in Running

\* uploadedSize / totalSize >= 99.9%: the bytes missing are at most a
\* thousandth of totalSize
AtLeast999PerMille(progress) ==
    progress.totalSize - progress.uploadedSize <= progress.totalSize \div 1000

\* C26 (Startup reconciliation): when the page is loaded, exactly the
\* persisted records with uploadedSize / totalSize >= 99.9% are deleted and
\* not shown; every other record stays in the store unchanged and is shown
\* as exactly one queue item, in status paused, and nothing else is shown.
C26_Reconciliation ==
    [][restarts' = restarts + 1 =>
          LET kept == {k \in DOMAIN store : ~AtLeast999PerMille(store[k])}
          IN /\ DOMAIN store' = kept
             /\ \A k \in kept : store'[k] = store[k]
             /\ Len(queue') = Cardinality(kept)
             /\ \A k \in kept :
                    \E i \in 1..Len(queue') :
                        /\ queue'[i].key = k
                        /\ queue'[i].status = "paused"
                        /\ queue'[i].file.name = store[k].fileName
                        /\ \A j \in 1..Len(queue') :
                               queue'[j].key = k => j = i]_vars

\* the page was loaded while the record of the three-part file held two parts,
\* all but its last byte: the record is gone and nothing is shown for it
C26_Witness ==
    /\ restarts = 1
    /\ queue = <<>>
    /\ store = <<>>
    /\ \E u \in DOMAIN sessions :
           /\ sessions[u].key = DestKey(File("b", BigSize, 1))
           /\ sessions[u].parts = 1..(MaxParts - 1)
           /\ sessions[u].state = "open"

\* the step starts an invocation of resumableUpload for a queue item in slot s
StartsItem(s) ==
    /\ inv'[s].item # NoItem
    /\ inv'[s].item # inv[s].item
    /\ inv'[s].pc \in {"init", "part", "paused", "complete"}

\* C27 (Retry): the step that takes an item out of status error leaves it
\* queued with no error text; an invocation the coordinator starts for an
\* item whose identity has a persisted record takes the record's session
\* without creating a new one and goes on with the lowest part the record
\* does not hold; it never issues uploadPart for a part the record held.
C27_Retry ==
    [][/\ \A i \in 1..Len(queue) : \A j \in 1..Len(queue') :
              (/\ queue[i].status = "error"
               /\ queue'[j].id = queue[i].id
               /\ queue'[j].status # "error")
                  => /\ queue'[j].status = "queued"
                     /\ queue'[j].error = ""
       /\ \A s \in Slots :
              (StartsItem(s) /\ inv'[s].fileKey \in DOMAIN store)
                  => LET w == inv'[s]
                         record == store[w.fileKey]
                         n == TotalChunks(w.file.size)
                         missing == (1..n) \ DOMAIN record.parts
                     IN /\ w.loaded = record
                        /\ ~w.initCalled
                        /\ w.progress.uploadId = record.uploadId
                        /\ missing # {} =>
                               /\ w.pc = "part"
                               /\ \A m \in missing : w.partNumber <= m
                               /\ w.partNumber \in missing
                        /\ missing = {} => w.pc = "complete"
       /\ \A s \in Slots :
              (IssuesPart(s) /\ inv'[s].loaded # Null)
                  => inv'[s].partNumber \notin DOMAIN inv'[s].loaded.parts]_vars

\* a retried item of three parts whose first attempt failed after the first
\* part: its second invocation has the second part in flight and has created
\* no session
C27_Witness ==
    \E s \in Slots : \E i \in 1..Len(queue) :
        /\ queue[i].id = inv[s].item
        /\ queue[i].status = "uploading"
        /\ queue[i].error = ""
        /\ inv[s].loaded # Null
        /\ DOMAIN inv[s].loaded.parts = {1}
        /\ inv[s].pc = "part"
        /\ inv[s].partCalls = <<2>>
        /\ ~inv[s].initCalled
        /\ TotalChunks(inv[s].file.size) = 3

\* C28 (Completed items): at the step in which a resumable item becomes
\* completed, no record is persisted and no controller is registered under
\* its identity; and every item that is completed leaves the queue.
C28_CompletedLeaves ==
    /\ [][\A i \in 1..Len(queue) : \A j \in 1..Len(queue') :
              (/\ queue'[j].id = queue[i].id
               /\ queue[i].status # "completed"
               /\ queue'[j].status = "completed"
               /\ queue[i].isResumable)
                  => /\ ItemFileKey(queue[i]) \notin DOMAIN store'
                     /\ ItemFileKey(queue[i]) \notin DOMAIN activeUploads']_vars
    /\ \A id \in AddedIds :
           (HasItem(queue, id) /\ ItemOf(queue, id).status = "completed")
               ~> ~HasItem(queue, id)

\* a resumable item stands completed in the queue, its object is stored, and
\* its identity has neither record nor controller
C28_Witness ==
    \E i \in 1..Len(queue) :
        /\ queue[i].status = "completed"
        /\ queue[i].isResumable
        /\ queue[i].key \in objects
        /\ ItemFileKey(queue[i]) \notin DOMAIN store
        /\ ItemFileKey(queue[i]) \notin DOMAIN activeUploads

\* the storage key an item's upload record is kept under: a reconciled item
\* carries it as its key, an enqueued one derives it from key and file
RecordKey(item) ==
    IF item.id[1] = "pending" THEN item.key ELSE ItemFileKey(item)

\* C29: a remove of an item whose status is not 'uploading', enqueued from a
\* file or surfaced by the reconciliation at startup, leaves the queue without
\* the item and the store without a record under the item's storage key.
C29_Remove ==
    [][\A i \in 1..Len(queue) :
          (/\ queue[i].status # "uploading"
           /\ \E abortOk \in BOOLEAN : RemoveFromQueue(queue[i].id, abortOk))
              => /\ ~HasItem(queue', queue[i].id)
                 /\ RecordKey(queue[i]) \notin DOMAIN store']_vars

\* a reconciled item whose record is in the store, and an enqueued item whose
\* record is in the store while it is paused: both can be removed
C29_Witness ==
    /\ \E i \in 1..Len(queue) :
           /\ queue[i].id[1] = "pending"
           /\ queue[i].status = "paused"
           /\ RecordKey(queue[i]) \in DOMAIN store
           /\ ENABLED RemoveFromQueue(queue[i].id, TRUE)

\* the chunk table is the partition of an object of the given size into
\* CHUNK_SIZE ranges with no chunk completed
FreshTable(chunks, size) ==
    LET n == TotalChunks(size)
    IN /\ DOMAIN chunks = 0..(n - 1)
       /\ \A i \in 0..(n - 1) :
             /\ ~chunks[i].downloaded
             /\ chunks[i].start = i * CHUNK_SIZE
             /\ chunks[i].end = Min((i + 1) * CHUNK_SIZE, size) - 1

\* the loaded record's modification time differs from the object's
Invalidated == dl.progress # Null /\ dl.progress.lastModified # remote.lastModified

\* C30 (Download invalidation): when headObject answers a call that loaded a
\* record with another modification time, the record is deleted, the call
\* works on the partition of the freshly reported size with no chunk completed
\* and no chunk in hand, and its fetch loop starts at chunk 0; when the times
\* are equal the call keeps the record's chunks and flags and the record stays
\* unless the call is over; a call that returns has fetched every chunk.
C30_Invalidation ==
    /\ [][(dl.pc = "head" /\ dl'.pc \notin {"head", "failed"} /\ dl.progress # Null)
            => IF Invalidated
               THEN /\ DownloadKey(downloadKey, downloadName) \notin DOMAIN downloads'
                    /\ dl'.progress.totalSize = remote.size
                    /\ dl'.progress.lastModified = remote.lastModified
                    /\ dl'.progress.downloadedSize = 0
                    /\ FreshTable(dl'.progress.chunks, remote.size)
                    /\ dl'.downloadedChunks = <<>>
                    /\ remote.size > 0 => /\ dl'.pc = "chunk"
                                          /\ dl'.rangeCalls = <<0>>
               ELSE /\ dl'.progress = dl.progress
                    /\ dl'.pc # "done" => downloads' = downloads]_vars
    /\ [](dl.pc = "done"
            => \A i \in DOMAIN dl.progress.chunks :
                   \E j \in 1..Len(dl.rangeCalls) : dl.rangeCalls[j] = i)

\* headObject is about to answer a call that loaded a record with completed
\* chunks of an object that was replaced since
C30_Witness ==
    /\ dl.pc = "head"
    /\ Invalidated
    /\ \E i \in DOMAIN dl.progress.chunks : dl.progress.chunks[i].downloaded
    /\ dl.progress.totalSize # remote.size
    /\ remote.size > CHUNK_SIZE
    /\ ENABLED HeadOk

\* how many getObject calls with a Range the running call issued for chunk i
RangeFetches(i) ==
    Cardinality({j \in 1..Len(dl.rangeCalls) : dl.rangeCalls[j] = i})

\* the chunks the record under the download's storage key marks completed
Marked(st) ==
    LET k == DownloadKey(downloadKey, downloadName)
    IN {i \in DOMAIN st[k].chunks : st[k].chunks[i].downloaded}

CompleteRecord(p) == p.downloadedSize >= p.totalSize

\* C32, as claimed: a reader shows and keeps no logically complete record:
\* the listing of the download manager at its mount holds none and leaves none
\* in the store, and a record that resumableDownload loads at its start is
\* not complete, a complete one being deleted instead.
C32_CompletePurged ==
    [][LET k == DownloadKey(downloadKey, downloadName)
       IN /\ (~tracker.open /\ tracker'.open)
                => /\ \A x \in DOMAIN tracker'.pendingDownloads :
                          ~CompleteRecord(tracker'.pendingDownloads[x])
                   /\ \A x \in DOMAIN downloads' : ~CompleteRecord(downloads'[x])
          /\ (dl.pc # "head" /\ dl'.pc = "head")
                => /\ dl'.progress # Null => ~CompleteRecord(dl'.progress)
                   /\ k \in DOMAIN downloads' => ~CompleteRecord(downloads'[k])]_vars

Rejections == {ErrNotConfigured, ErrTooSmall}

\* C33 (Rejection has no effect): a resumableUpload that ends with
\* NotConfigured or with the too-small error, and a resumableDownload or an
\* abortUpload that ends with NotConfigured, has made no object-store call and
\* leaves the upload and download records, the registry of active uploads and
\* the object store as they were.
C33_RejectionNoEffect ==
    [][/\ \A s \in Slots :
             (/\ inv[s].pc \notin Running
              /\ inv'[s].pc = "ended"
              /\ inv'[s].outcome \in Rejections
              /\ inv'[s] # inv[s])
                 => /\ store' = store
                    /\ activeUploads' = activeUploads
                    /\ sessions' = sessions
                    /\ objects' = objects
                    /\ downloads' = downloads
                    /\ ~inv'[s].initCalled
                    /\ inv'[s].partCalls = <<>>
                    /\ inv'[s].manifest = <<>>
       /\ (calls' = calls + 1 /\ dl'.pc = "failed")
             => /\ ~configured
                /\ downloads' = downloads
                /\ store' = store
                /\ remote' = remote
                /\ dl'.rangeCalls = <<>>
                /\ dl'.progress = Null
       /\ (calls' = calls + 1 /\ ~configured) => dl'.pc = "failed"
       /\ (abortResult' = ErrNotConfigured /\ abortResult # ErrNotConfigured)
             => /\ ~configured
                /\ store' = store
                /\ sessions' = sessions
                /\ activeUploads' = activeUploads
                /\ objects' = objects]_vars

\* after a reload that lost the configuration, with the record and the open
\* session of an interrupted upload left behind, a resumableUpload of that
\* file was rejected and an abortUpload was rejected
C33_Witness ==
    /\ ~configured
    /\ restarts = 1
    /\ store # <<>>
    /\ \E id \in DOMAIN sessions : sessions[id].state = "open"
    /\ abortResult = ErrNotConfigured
    /\ \E s \in Slots :
          /\ inv[s].pc = "ended"
          /\ inv[s].outcome = ErrNotConfigured
          /\ inv[s].fileKey \in DOMAIN store

\* a resumableDownload that the download manager started is running; the
\* manager may have been closed since
ManagerCallRuns ==
    /\ dl.caller \in {"manager", "unmounted"}
    /\ dl.pc \in {"head", "chunk", "assemble"}

\* C34, as claimed: while the download manager is shown, the identity is in
\* its active set exactly while a call the manager started is running; when
\* that call returns the Blob the identity leaves the active set and the
\* pending list, when it fails the identity leaves the active set and the
\* pending list stays as it is.
C34_ActiveSet ==
    /\ [](tracker.open
            => (DownloadKey(downloadKey, downloadName) \in tracker.activeDownloads
                    <=> ManagerCallRuns))
    /\ [][LET k == DownloadKey(downloadKey, downloadName)
          IN (tracker.open /\ dl.caller = "manager"
                           /\ dl.pc \in {"head", "chunk", "assemble"})
               => /\ dl'.pc = "done"
                     => /\ k \notin tracker'.activeDownloads
                        /\ k \notin DOMAIN tracker'.pendingDownloads
                  /\ dl'.pc = "failed"
                     => /\ k \notin tracker'.activeDownloads
                        /\ tracker'.pendingDownloads = tracker.pendingDownloads]_vars

\* C35, as claimed: when an invocation of resumableUpload ends, by success,
\* by a failure of createMultipartUpload, uploadPart or
\* completeMultipartUpload, or by cancellation, no controller is registered
\* for its identity.
C35_RegistryOnlyWhileRunning ==
    [][\A s \in Slots :
          (inv[s].pc \in Running /\ inv[s].pc # "put" /\ inv'[s].pc \notin Running)
             => ~IsUploadActive(activeUploads', inv[s].fileKey)]_vars

\* C36, as claimed: while the pause flag of a running upload is set, the
\* engine issues no store call for it: no uploadPart and no
\* completeMultipartUpload follows the call that was in flight when the flag
\* was set.
C36_PausedIssuesNothing ==
    [][\A s \in Slots :
          (inv[s].pc \in Running /\ inv[s].isPaused /\ inv'[s].pc \in Running)
             => /\ inv'[s].partCalls = inv[s].partCalls
                /\ inv'[s].pc = "complete" => inv[s].pc = "complete"]_vars

\* the invocations of queue items that hold the pause flag
HeldSlots ==
    {s \in Slots : /\ inv[s].pc \in Running
                   /\ inv[s].item # NoItem
                   /\ inv[s].isPaused}

\* C37 (the coordinator waits for a paused upload): while the resumable upload
\* of a queue item holds the pause flag, in flight or in its pause wait, the
\* processing flag is set and no step starts the upload of another item; the
\* flag is released in the step that ends the paused invocation.
C37_PauseHoldsQueue ==
    /\ [](HeldSlots # {} => processingRef)
    /\ [][HeldSlots # {}
            => /\ \A t \in Slots :
                     inv[t].pc \notin Running => inv'[t].pc \notin Running
               /\ (processingRef /\ ~processingRef')
                     => \E s \in HeldSlots : inv'[s].pc \notin Running]_vars

\* the first item waits in its pause loop with one part acknowledged while a
\* later item is queued and the coordinator cannot take it
C37_Witness ==
    /\ \E s \in HeldSlots :
          /\ inv[s].pc = "paused"
          /\ DOMAIN inv[s].progress.parts # {}
    /\ \E i \in 1..Len(queue) : queue[i].status = "queued"
    /\ ~ENABLED ProcessQueue

\* C38, as claimed: the object that the upload of a queue item puts into the
\* store lies under the key the item got when it was enqueued, for resumable
\* and for small items.
C38_DestinationKey ==
    [][\A s \in Slots :
          (/\ inv[s].pc \in Running
           /\ inv[s].item # NoItem
           /\ HasItem(queue, inv[s].item)
           /\ inv'[s].pc \notin Running
           /\ objects' # objects)
              => objects' \ objects = {ItemOf(queue, inv[s].item).key}]_vars

\* ------------------------------------------------ cancel and remove: frame
\* The queue at work while a caller of the service cancels by storage key:
\* the user pauses, resumes and removes items.
FrameNext ==
    \/ \E fileKey \in FileKeys : CallCancel(fileKey)
    \/ \E files \in Batches : AddFilesToQueue(files)
    \/ ProcessQueue
    \/ \E id \in ItemIds : PauseUpload(id)
    \/ \E id \in ItemIds : ResumeUpload(id)
    \/ \E id \in ItemIds, abortOk \in BOOLEAN : RemoveFromQueue(id, abortOk)
    \/ \E s \in Slots :
          \/ InitOk(s) \/ PartOk(s) \/ PauseOver(s) \/ CompleteOk(s)
          \/ PutOk(s)

FrameSpec == Init /\ [][FrameNext]_vars

\* what belongs to the transfers other than own is the same after the step
OthersKept(own) ==
    /\ DOMAIN store' \ {own} = DOMAIN store \ {own}
    /\ \A k \in DOMAIN store \ {own} : store'[k] = store[k]
    /\ DOMAIN activeUploads' \ {own} = DOMAIN activeUploads \ {own}
    /\ \A k \in DOMAIN activeUploads \ {own} :
          activeUploads'[k] = activeUploads[k]
    /\ \A s \in Slots : inv[s].fileKey # own => inv'[s] = inv[s]
    /\ \A i \in 1..Len(queue) :
          RecordKey(queue[i]) # own
             => \E j \in 1..Len(queue') : queue'[j] = queue[i]

\* C39: cancelUpload(fileKey) and removeFromQueue(item) leave the persisted
\* records, the registered controllers with their pause flags, the running
\* invocations and the queue items of every other identity as they were.
C39_OthersUntouched ==
    /\ [][\A fileKey \in FileKeys :
             CallCancel(fileKey) => OthersKept(fileKey)]_vars
    /\ [][\A id \in ItemIds, abortOk \in BOOLEAN :
             RemoveFromQueue(id, abortOk)
                => OthersKept(RecordKey(ItemOf(queue, id)))]_vars

\* an item was removed while its upload ran, and the record of another
\* identity and another item of the queue are there
C39_Witness ==
    \E s \in Slots :
       /\ inv[s].isAborted
       /\ inv[s].item # NoItem
       /\ ~HasItem(queue, inv[s].item)
       /\ \E k \in DOMAIN store : k # inv[s].fileKey
       /\ \E i \in 1..Len(queue) : RecordKey(queue[i]) # inv[s].fileKey

\* ------------------------------------------------------------ renameObject
\* the names a listed object can have and be given
RenameNames == {"a", "b", "s"}

\* the keys the bucket can hold when the page opens
BucketKeys == {<<Str(p \o n)>> : p \in Paths, n \in RenameNames}

\* useS3.renameObject: oldKey.split('/') with its last part replaced by
\* newName, joined again
RenamedKey(oldKey, newName) ==
    LET known == {pn \in Paths \X RenameNames :
                     oldKey = <<Str(pn[1] \o pn[2])>>}
        pn == CHOOSE x \in known : TRUE
    IN <<Str(pn[1] \o newName)>>

\* the page opens on a bucket that already holds objects
RenameInit ==
    /\ store = <<>>
    /\ activeUploads = <<>>
    /\ inv = [s \in Slots |-> IdleInv]
    /\ sessions = <<>>
    /\ objects \in SUBSET BucketKeys
    /\ queue = <<>>
    /\ processingRef = FALSE
    /\ nextId = 0
    /\ restarts = 0
    /\ remote = [size |-> 0, lastModified |-> 1]
    /\ DownloadIdle
    /\ ServiceInit

\* handleRenameSubmit on a listed object, then s3Service.renameObject up to
\* its copyObject request
RenameObject(oldKey, newName) ==
    LET newKey == RenamedKey(oldKey, newName)
    IN /\ rename.pc \in {"idle", "done", "failed"}
       /\ oldKey \in objects
       /\ newKey # oldKey
       /\ rename' = [pc |-> IF configured THEN "copy" ELSE "failed",
                     oldKey |-> oldKey, newKey |-> newKey,
                     existed |-> newKey \in objects]
       /\ UNCHANGED <<uploadVars, downloadVars, configured, currentPath,
                      abortResult>>

RenameFrame ==
    UNCHANGED <<store, activeUploads, inv, sessions, queue, processingRef,
                nextId, restarts, downloadVars, configured, currentPath,
                abortResult>>

\* copyObject answers: the object is under newKey as well, and deleteObject
\* (oldKey) is requested
CopyOk ==
    /\ rename.pc = "copy"
    /\ rename.oldKey \in objects
    /\ objects' = objects \cup {rename.newKey}
    /\ rename' = [rename EXCEPT !.pc = IF configured THEN "delete"
                                       ELSE "failed"]
    /\ RenameFrame

\* copyObject fails: handleS3Error throws
CopyFail ==
    /\ rename.pc = "copy"
    /\ rename' = [rename EXCEPT !.pc = "failed"]
    /\ objects' = objects
    /\ RenameFrame

\* deleteObject answers: renameObject resolves
DeleteOk ==
    /\ rename.pc = "delete"
    /\ objects' = objects \ {rename.oldKey}
    /\ rename' = [rename EXCEPT !.pc = "done"]
    /\ RenameFrame

\* deleteObject fails: its handleS3Error throws, the catch of renameObject
\* throws again, and nothing removes the copy
DeleteFail ==
    /\ rename.pc = "delete"
    /\ rename' = [rename EXCEPT !.pc = "failed"]
    /\ objects' = objects
    /\ RenameFrame

RenameNext ==
    \/ \E oldKey \in BucketKeys, newName \in RenameNames :
          RenameObject(oldKey, newName)
    \/ CopyOk
    \/ CopyFail
    \/ DeleteOk
    \/ DeleteFail

RenameSpec == RenameInit /\ [][RenameNext]_vars

\* C40: a renameObject that fails leaves the object under oldKey and nothing
\* under newKey (when there was nothing under newKey before), and one that
\* succeeds leaves the object under newKey only.
C40_RenameAllOrNothing ==
    /\ (rename.pc = "failed" /\ ~rename.existed)
          => (rename.oldKey \in objects /\ rename.newKey \notin objects)
    /\ rename.pc = "done"
          => (rename.newKey \in objects /\ rename.oldKey \notin objects)

====
